---- MODULE Spec2Model ----
(***************************************************************************)
(* State-machine model of the Polarity AWS Athena integration.             *)
(*                                                                         *)
(* Two builds of the integration module are modelled: src/unnamed/part_001 *)
(* (prepared statement ensured once per doLookup, onMessage resume path)   *)
(* and src/integration.js (prepared statement ensured inside every entity  *)
(* task, no onMessage).  The variable impl says which one is loaded.       *)
(*                                                                         *)
(* JavaScript strings are sequences of one-character strings, so parsing   *)
(* and escaping are computed character by character.  Every await on a     *)
(* remote call or timer is a separate action: the code up to the await is  *)
(* the action that sends the call, the code after it is the action that    *)
(* receives the answer.                                                    *)
(***************************************************************************)
EXTENDS Integers, Sequences, FiniteSets, TLC

(***************************************************************************)
(* JavaScript values                                                       *)
(***************************************************************************)
\* null where the other values are records
NullObj == [isNull |-> TRUE]
\* null where a list is expected
NullList == <<[isNull |-> TRUE]>>
\* null / undefined where the other values are character sequences
NullStr == <<"<null>">>
UndefinedStr == <<"<undefined>">>
\* null where the other values are plain strings
NULL == "null"

Digits == {"0", "1", "2", "3", "4", "5", "6", "7", "8", "9"}
LowerAlphabet == <<"a", "b", "c", "d", "e", "f", "g", "h", "i", "j", "k", "l", "m",
                   "n", "o", "p", "q", "r", "s", "t", "u", "v", "w", "x", "y", "z">>
UpperAlphabet == <<"A", "B", "C", "D", "E", "F", "G", "H", "I", "J", "K", "L", "M",
                   "N", "O", "P", "Q", "R", "S", "T", "U", "V", "W", "X", "Y", "Z">>
LowerLetters == {LowerAlphabet[k] : k \in DOMAIN LowerAlphabet}
UpperLetters == {UpperAlphabet[k] : k \in DOMAIN UpperAlphabet}
\* \w of a JavaScript regular expression
WordChars == Digits \cup LowerLetters \cup UpperLetters \cup {"_"}
WhiteSpace == {" ", "\t", "\n", "\r"}

ToLowerChar(c) ==
    IF c \in UpperLetters
    THEN LowerAlphabet[CHOOSE k \in DOMAIN UpperAlphabet : UpperAlphabet[k] = c]
    ELSE c

toLowerCase(s) == [k \in 1..Len(s) |-> ToLowerChar(s[k])]

includes(s, c) == \E k \in 1..Len(s) : s[k] = c

RECURSIVE Concat(_)
Concat(ss) == IF ss = <<>> THEN <<>> ELSE Head(ss) \o Concat(Tail(ss))

(***************************************************************************)
(* escapeEntityValue: three replace passes, in the order of the source.    *)
(***************************************************************************)
RECURSIVE ReplaceAll(_, _, _)
ReplaceAll(s, c, by) ==
    IF s = <<>> THEN <<>>
    ELSE (IF Head(s) = c THEN by ELSE <<Head(s)>>) \o ReplaceAll(Tail(s), c, by)

\* variant: the quotes are escaped before the backslashes are doubled
escapeQuotesFirst(entityValue) ==
    LET noBreaks == ReplaceAll(ReplaceAll(entityValue, "\n", <<>>), "\r", <<>>)
        quotes   == ReplaceAll(noBreaks, "'", <<"\\", "'">>)
    IN  ReplaceAll(quotes, "\\", <<"\\", "\\">>)

escapeEntityValue(entityValue) ==
    LET noBreaks == ReplaceAll(ReplaceAll(entityValue, "\n", <<>>), "\r", <<>>)
        slashes  == ReplaceAll(noBreaks, "\\", <<"\\", "\\">>)
    IN  ReplaceAll(slashes, "'", <<"\\", "'">>)

(***************************************************************************)
(* parseTypeHints: the regular expression /\?(?::(\w+))?/g applied left to *)
(* right; every match becomes a bare "?" and one type hint.                *)
(***************************************************************************)
StringType == <<"s", "t", "r", "i", "n", "g">>

RECURSIVE WordRunLen(_, _)
WordRunLen(q, i) ==
    IF i > Len(q) \/ q[i] \notin WordChars THEN 0 ELSE 1 + WordRunLen(q, i + 1)

RECURSIVE ScanTypeHints(_, _)
ScanTypeHints(q, i) ==
    IF i > Len(q) THEN [query |-> <<>>, types |-> <<>>]
    ELSE IF q[i] = "?"
         THEN LET n    == IF i + 1 <= Len(q) /\ q[i + 1] = ":"
                          THEN WordRunLen(q, i + 2) ELSE 0
                  used == IF n > 0 THEN n + 2 ELSE 1
                  type == IF n > 0 THEN SubSeq(q, i + 2, i + 1 + n) ELSE StringType
                  rest == ScanTypeHints(q, i + used)
              IN  [query |-> <<"?">> \o rest.query, types |-> <<type>> \o rest.types]
         ELSE LET rest == ScanTypeHints(q, i + 1)
              IN  [query |-> <<q[i]>> \o rest.query, types |-> rest.types]

\* variant: parameterIndex is incremented before the hint is pushed
parseTypeHintsFromOne(query) ==
    LET scan == ScanTypeHints(query, 1)
    IN  [query     |-> scan.query,
         typeHints |-> [k \in 1..Len(scan.types) |->
                           [index |-> k, type |-> scan.types[k]]]]

parseTypeHints(query) ==
    LET scan == ScanTypeHints(query, 1)
    IN  [query     |-> scan.query,
         typeHints |-> [k \in 1..Len(scan.types) |->
                           [index |-> k - 1, type |-> scan.types[k]]]]

(***************************************************************************)
(* createParameterValue                                                    *)
(***************************************************************************)
DigitValue(c) ==
    CASE c = "0" -> 0 [] c = "1" -> 1 [] c = "2" -> 2 [] c = "3" -> 3 [] c = "4" -> 4
      [] c = "5" -> 5 [] c = "6" -> 6 [] c = "7" -> 7 [] c = "8" -> 8 [] c = "9" -> 9

DigitChar(d) ==
    CASE d = 0 -> "0" [] d = 1 -> "1" [] d = 2 -> "2" [] d = 3 -> "3" [] d = 4 -> "4"
      [] d = 5 -> "5" [] d = 6 -> "6" [] d = 7 -> "7" [] d = 8 -> "8" [] d = 9 -> "9"

RECURSIVE SkipWhiteSpace(_)
SkipWhiteSpace(s) ==
    IF s # <<>> /\ Head(s) \in WhiteSpace THEN SkipWhiteSpace(Tail(s)) ELSE s

RECURSIVE DigitRunLen(_, _)
DigitRunLen(s, i) ==
    IF i > Len(s) \/ s[i] \notin Digits THEN 0 ELSE 1 + DigitRunLen(s, i + 1)

RECURSIVE DigitsToNat(_)
DigitsToNat(ds) ==
    IF ds = <<>> THEN 0
    ELSE DigitsToNat(SubSeq(ds, 1, Len(ds) - 1)) * 10 + DigitValue(ds[Len(ds)])

RECURSIVE NatToString(_)
NatToString(n) ==
    IF n < 10 THEN <<DigitChar(n)>> ELSE NatToString(n \div 10) \o <<DigitChar(n % 10)>>

\* String(n) of an integer n; String(-0) is "0"
IntToString(n) == IF n < 0 THEN <<"-">> \o NatToString(0 - n) ELSE NatToString(n)

\* parseInt(s, 10): leading white space, an optional sign, then the longest
\* run of digits; NaN when that run is empty
IntOfDigits(neg, u, n) ==
    IF n = 0 THEN [isNaN |-> TRUE, value |-> 0]
    ELSE [isNaN |-> FALSE,
          value |-> IF neg THEN 0 - DigitsToNat(SubSeq(u, 1, n))
                    ELSE DigitsToNat(SubSeq(u, 1, n))]
IntOfUnsigned(neg, u) == IntOfDigits(neg, u, DigitRunLen(u, 1))
IntOfTrimmed(t) ==
    IntOfUnsigned(t # <<>> /\ Head(t) = "-",
                  IF t # <<>> /\ Head(t) \in {"+", "-"} THEN Tail(t) ELSE t)
parseInt(s) == IntOfTrimmed(SkipWhiteSpace(s))

IntegerTypes == {<<"i","n","t","e","g","e","r">>, <<"i","n","t">>, <<"b","i","g","i","n","t">>}
DecimalTypes == {<<"d","e","c","i","m","a","l">>, <<"d","o","u","b","l","e">>,
                 <<"f","l","o","a","t">>, <<"r","e","a","l">>}
BooleanTypes == {<<"b","o","o","l","e","a","n">>, <<"b","o","o","l">>}

RECURSIVE Zeros(_)
Zeros(n) == IF n <= 0 THEN <<>> ELSE <<"0">> \o Zeros(n - 1)

RECURSIVE StripLeadingZeros(_)
StripLeadingZeros(ds) ==
    IF Len(ds) > 1 /\ Head(ds) = "0" THEN StripLeadingZeros(Tail(ds)) ELSE ds

RECURSIVE StripTrailingZeros(_)
StripTrailingZeros(ds) ==
    IF ds # <<>> /\ ds[Len(ds)] = "0"
    THEN StripTrailingZeros(SubSeq(ds, 1, Len(ds) - 1)) ELSE ds

StartsWith(s, prefix) == Len(s) >= Len(prefix) /\ SubSeq(s, 1, Len(prefix)) = prefix

Infinity == <<"I","n","f","i","n","i","t","y">>

IsSigned(t) == t # <<>> /\ Head(t) \in {"+", "-"}
IsNegative(t) == IsSigned(t) /\ Head(t) = "-"
Unsigned(t) == IF IsSigned(t) THEN Tail(t) ELSE t

\* String() of a finite double: the decimal notation it prints for magnitudes
\* in [1e-6, 1e21), from the integer digits and the fraction digits
Decimal(neg, int, frac) ==
    [isNaN |-> FALSE,
     text  |-> (IF neg /\ ~(int = <<"0">> /\ frac = <<>>) THEN <<"-">> ELSE <<>>) \o int
               \o (IF frac = <<>> THEN <<>> ELSE <<".">> \o frac)]

\* the digits ds with the decimal point after the first point of them
IntDigits(ds, point) ==
    IF point <= 0 THEN <<"0">>
    ELSE IF point >= Len(ds) THEN ds \o Zeros(point - Len(ds))
    ELSE SubSeq(ds, 1, point)

FracDigits(ds, point) ==
    IF point <= 0 THEN Zeros(0 - point) \o ds
    ELSE IF point >= Len(ds) THEN <<>>
    ELSE SubSeq(ds, point + 1, Len(ds))

FloatOfDigits(neg, ds, point) ==
    Decimal(neg, StripLeadingZeros(IntDigits(ds, point)),
            StripTrailingZeros(FracDigits(ds, point)))

\* the exponent part that starts at pos: e or E, an optional sign, digits
HasE(u, pos) == pos <= Len(u) /\ u[pos] \in {"e", "E"}
HasESign(u, pos) == HasE(u, pos) /\ pos + 1 <= Len(u) /\ u[pos + 1] \in {"+", "-"}
ExponentOf(u, pos, eFrom, ne) ==
    IF ne = 0 THEN 0
    ELSE IF HasESign(u, pos) /\ u[pos + 1] = "-"
    THEN 0 - DigitsToNat(SubSeq(u, eFrom, eFrom + ne - 1))
    ELSE DigitsToNat(SubSeq(u, eFrom, eFrom + ne - 1))
ExponentFrom(u, pos, eFrom) ==
    ExponentOf(u, pos, eFrom, IF HasE(u, pos) THEN DigitRunLen(u, eFrom) ELSE 0)
Exponent(u, pos) == ExponentFrom(u, pos, IF HasESign(u, pos) THEN pos + 2 ELSE pos + 1)

\* ni integer digits, then a point and nf fraction digits if hasDot
FloatOfMantissa(u, neg, ni, hasDot, nf) ==
    IF ni = 0 /\ nf = 0 THEN [isNaN |-> TRUE, text |-> <<"N","a","N">>]
    ELSE FloatOfDigits(neg,
                       SubSeq(u, 1, ni) \o SubSeq(u, ni + 2, ni + 1 + nf),
                       ni + Exponent(u, ni + (IF hasDot THEN 1 + nf ELSE 0) + 1))

FloatOfFraction(u, neg, ni, hasDot) ==
    FloatOfMantissa(u, neg, ni, hasDot, IF hasDot THEN DigitRunLen(u, ni + 2) ELSE 0)

FloatOfInteger(u, neg, ni) ==
    FloatOfFraction(u, neg, ni, ni + 1 <= Len(u) /\ u[ni + 1] = ".")

FloatOfUnsigned(u, neg) ==
    IF StartsWith(u, Infinity)
    THEN [isNaN |-> FALSE, text |-> (IF neg THEN <<"-">> ELSE <<>>) \o Infinity]
    ELSE FloatOfInteger(u, neg, DigitRunLen(u, 1))

FloatOfTrimmed(t) == FloatOfUnsigned(Unsigned(t), IsNegative(t))

\* parseFloat(s) followed by String(): leading white space, an optional sign,
\* "Infinity" or digits [. digits] [e [sign] digits]
parseFloat(s) == FloatOfTrimmed(SkipWhiteSpace(s))

\* a thrown Error: its message is a format, the values spliced into it and,
\* where it wraps another error's message, that message's format
Error(fmt, args) == [name |-> "Error", fmt |-> fmt, args |-> args, cause |-> ""]
WrapError(fmt, args, inner) ==
    [name |-> "Error", fmt |-> fmt, args |-> args \o inner.args, cause |-> inner.fmt]
Returned(v) == [threw |-> FALSE, value |-> v]
Thrown(e) == [threw |-> TRUE, error |-> e]

\* variant: the value is passed on without the isNaN test
IntegerLiteralUnchecked(entityValue, intValue) == Returned(entityValue)

\* case 'integer', 'int', 'bigint'
IntegerLiteral(entityValue, intValue) ==
    IF intValue.isNaN
    THEN Thrown(Error("Cannot convert \"%s\" to integer type", <<entityValue>>))
    ELSE Returned(IntToString(intValue.value))

NumericLiteral(entityValue, floatValue) ==
    IF floatValue.isNaN
    THEN Thrown(Error("Cannot convert \"%s\" to numeric type", <<entityValue>>))
    ELSE Returned(floatValue.text)

BooleanLiteral(entityValue, lowerValue) ==
    IF lowerValue \in {<<"t","r","u","e">>, <<"1">>}
    THEN Returned(<<"t","r","u","e">>)
    ELSE IF lowerValue \in {<<"f","a","l","s","e">>, <<"0">>}
    THEN Returned(<<"f","a","l","s","e">>)
    ELSE Thrown(Error("Cannot convert \"%s\" to boolean type", <<entityValue>>))

\* the switch on type.toLowerCase()
LiteralOfType(entityValue, t) ==
    IF t \in IntegerTypes THEN IntegerLiteral(entityValue, parseInt(entityValue))
    ELSE IF t \in DecimalTypes THEN NumericLiteral(entityValue, parseFloat(entityValue))
    ELSE IF t \in BooleanTypes THEN BooleanLiteral(entityValue, toLowerCase(entityValue))
    ELSE Returned(<<"'">> \o escapeEntityValue(entityValue) \o <<"'">>)

createParameterValue(entityValue, type) == LiteralOfType(entityValue, toLowerCase(type))

(***************************************************************************)
(* Bounds of the model and program constants                               *)
(***************************************************************************)
\* entities of one doLookup call
MaxEntities == 2
\* doLookup calls of one run
MaxLookups == 2
MaxResumes == 2

MAX_QUERY_STATUS_POLLING_ATTEMPTS == 10
maxAttempts == 15
ParallelLimit == 10

(***************************************************************************)
(* State                                                                   *)
(***************************************************************************)
VARIABLES
    impl,                      \* the build that is loaded: "part_001" or "integration"
    originalOptions,           \* module variables of the integration
    athenaClient,
    currentPreparedStatement,
    currentQuery,
    attributeCache,            \* the cached and last-seen attribute option variables
    remoteStatements,          \* Athena: region -> text of the prepared statement
    executions,                \* Athena: query executions, indexed by execution id
    lookup,                    \* the doLookup invocation
    ensureCalls,               \* the ensurePreparedStatement calls of the invocation
    tasks,                     \* the entity tasks of the invocation
    message,                   \* the onMessage invocation
    history,                   \* counters over the whole run
    component                  \* the properties of the paging component

vars == <<impl, originalOptions, athenaClient, currentPreparedStatement, currentQuery,
          attributeCache, remoteStatements, executions, lookup, ensureCalls, tasks, message, history,
          component>>


Regions == {"us-east-1", "eu-west-1"}
NoStatement == NullStr
statementName == "polarity_prepared_statement_athena"

PendingStates == {"QUEUED", "RUNNING"}
FailedStates == {"FAILED", "CANCELLED"}
KnownStates == PendingStates \cup FailedStates \cup {"SUCCEEDED"}
\* a State value the integration does not know
UnknownState == "PAUSED"

Reasons == {<<"o", "o", "m">>, UndefinedStr}

HeaderRow == <<<<"a">>>>
RowX == <<<<"x">>>>
RowY == <<<<"y">>>>
\* ResultSet.Rows of GetQueryResults: no row at all, the header only, data rows
RowSets == {<<>>, <<HeaderRow>>, <<HeaderRow, RowX>>, <<HeaderRow, RowX, RowY>>}

RECURSIVE SeqsUpTo(_, _)
SeqsUpTo(S, n) ==
    IF n = 0 THEN {<<>>}
    ELSE SeqsUpTo(S, n - 1)
         \cup {Append(q, x) : q \in {p \in SeqsUpTo(S, n - 1) : Len(p) = n - 1}, x \in S}

\* result tables with up to MaxDataRows data rows: one column, two columns,
\* and two columns of the same name (SELECT t.a, u.a ...)
MaxDataRows == 3
TableHeaders == {<<<<"a">>>>, <<<<"a">>, <<"b">>>>, <<<<"a">>, <<"a">>>>}
DataRows(header) ==
    IF Len(header) = 1 THEN {RowX, RowY}
    ELSE {<<<<"x">>, <<"y">>>>, <<<<"y">>, <<"x">>>>}
TableRowSets ==
    {<<>>} \cup UNION {{<<header>> \o data : data \in SeqsUpTo(DataRows(header), MaxDataRows)} :
                          header \in TableHeaders}

\* result tables whose cells may be the empty string: one column a, and the
\* columns a and b
EmptyCell == <<>>
SparseRows(header) ==
    IF Len(header) = 1 THEN {RowX, <<EmptyCell>>}
    ELSE {<<<<"x">>, <<"y">>>>, <<<<"x">>, <<"x">>>>, <<<<"x">>, EmptyCell>>,
          <<EmptyCell, EmptyCell>>}
SparseRowSets ==
    UNION {{<<header>> \o data : data \in SeqsUpTo(SparseRows(header), MaxDataRows)} :
              header \in {<<<<"a">>>>, <<<<"a">>, <<"b">>>>}}

NoStatusResult == [isNull |-> TRUE]

(***************************************************************************)
(* Materializing GetQueryResults rows (a row is the sequence of its cells' *)
(* VarCharValue): the first row holds the column names.                    *)
(***************************************************************************)
Max(S) == CHOOSE x \in S : \A y \in S : y <= x

\* row.Data.forEach((col, index) => obj[headers[index]] = col.VarCharValue)
HeaderAt(headers, k) == IF k <= Len(headers) THEN headers[k] ELSE UndefinedStr

RowObject(headers, row) ==
    [h \in {HeaderAt(headers, k) : k \in 1..Len(row)} |->
        row[Max({k \in 1..Len(row) : HeaderAt(headers, k) = h})]]

\* variant: rows.slice(0), the header row is materialized as a data row too
MaterializeAllRows(rows) ==
    IF rows = <<>> THEN <<>>
    ELSE [k \in 1..Len(rows) |-> RowObject(rows[1], rows[k])]

MaterializeRows(rows) ==
    IF rows = <<>> THEN <<>>
    ELSE [k \in 1..(Len(rows) - 1) |-> RowObject(rows[1], rows[k + 1])]

(***************************************************************************)
(* Attribute specifications                                                *)
(***************************************************************************)
RECURSIVE IndexOf(_, _, _)
IndexOf(s, c, from) ==
    IF from > Len(s) THEN 0 ELSE IF s[from] = c THEN from ELSE IndexOf(s, c, from + 1)

RECURSIVE split(_, _)
split(s, sep) ==
    LET k == IndexOf(s, sep, 1)
    IN  IF k = 0 THEN <<s>>
        ELSE <<SubSeq(s, 1, k - 1)>> \o split(SubSeq(s, k + 1, Len(s)), sep)

RECURSIVE TrimEnd(_)
TrimEnd(s) ==
    IF s # <<>> /\ s[Len(s)] \in WhiteSpace THEN TrimEnd(SubSeq(s, 1, Len(s) - 1)) ELSE s

trim(s) == TrimEnd(SkipWhiteSpace(s))

NoParser == NullStr
\* what Array.map yields for a column with more than three tokens
UndefinedAttribute == [undefined |-> TRUE]

ParseColumn(column) ==
    LET tokens == split(column, ":")
    IN  IF Len(tokens) = 1
        THEN [label |-> trim(tokens[1]), attribute |-> trim(tokens[1]), parser |-> NoParser]
        ELSE IF Len(tokens) = 2
        THEN [label |-> trim(tokens[1]), attribute |-> trim(tokens[2]), parser |-> NoParser]
        ELSE IF Len(tokens) = 3
        THEN [label |-> trim(tokens[1]), attribute |-> trim(tokens[3]),
              parser |-> toLowerCase(trim(tokens[2]))]
        ELSE UndefinedAttribute

processAttributeOption(attributeOption) ==
    LET columns == split(attributeOption, ",")
    IN  [k \in 1..Len(columns) |-> ParseColumn(columns[k])]

\* lodash get(result, path) on a flat row object
get(result, path) == IF path \in DOMAIN result THEN result[path] ELSE UndefinedStr

DateParsers == {<<"d","a","t","e","-","i","s","o">>, <<"d","a","t","e","-","s","q","l">>,
                <<"d","a","t","e","-","s","e","c","o","n","d","s">>}

IsNumeric(s) == s # <<>> /\ \A k \in 1..Len(s) : s[k] \in Digits

\* luxon: epoch parsers accept a number; the text formats accept none of the
\* cell values of this model (they hold no date text)
IsValidDate(parser, attribute) ==
    parser = <<"d","a","t","e","-","s","e","c","o","n","d","s">> /\ IsNumeric(attribute)

\* toLocaleString(DateTime.DATETIME_SHORT) of the parsed date
FormattedDate(parser, attribute) == <<"<">> \o parser \o <<" ">> \o attribute \o <<">">>

parseAttribute(attribute, parser) ==
    IF attribute \in {NullStr, UndefinedStr} THEN <<>>
    ELSE IF parser \in DateParsers /\ IsValidDate(parser, attribute)
         THEN FormattedDate(parser, attribute)
         ELSE attribute

IsEmptyValue(v) == v \in {UndefinedStr, NullStr, <<>>}

Labelled(attributeObj, value) ==
    IF attributeObj.label # <<>>
    THEN attributeObj.label \o <<":", " ">> \o parseAttribute(value, attributeObj.parser)
    ELSE parseAttribute(value, attributeObj.parser)

IsConfigured(cached) == cached # NullList /\ Len(cached) > 0

\* [...new Set(tags)]: first occurrences, in order
RECURSIVE Dedupe(_)
Dedupe(tags) ==
    IF tags = <<>> THEN <<>>
    ELSE LET init == Dedupe(SubSeq(tags, 1, Len(tags) - 1))
             last == tags[Len(tags)]
         IN  IF \E k \in 1..Len(init) : init[k] = last THEN init ELSE Append(init, last)

CountTag(n) ==
    IntToString(n) \o (IF n = 1 THEN <<" ","r","e","s","u","l","t">>
                       ELSE <<" ","r","e","s","u","l","t","s">>)

Min(a, b) == IF a < b THEN a ELSE b

RECURSIVE TagsOfRows(_, _, _, _)
TagsOfRows(attributeObj, results, i, upTo) ==
    IF i > upTo THEN <<>>
    ELSE LET tag == get(results[i], attributeObj.attribute)
         IN  (IF IsEmptyValue(tag) THEN <<>> ELSE <<Labelled(attributeObj, tag)>>)
             \o TagsOfRows(attributeObj, results, i + 1, upTo)

RECURSIVE TagsOfAttributes(_, _, _, _)
TagsOfAttributes(attrs, k, results, upTo) ==
    IF k > Len(attrs) THEN <<>>
    ELSE TagsOfRows(attrs[k], results, 1, upTo) \o TagsOfAttributes(attrs, k + 1, results, upTo)

TypeError ==
    [name |-> "TypeError", fmt |-> "Cannot read properties of undefined", args |-> <<>>,
     cause |-> ""]

\* variant: the count tag is appended only when there is no tag
WithCountTagWhenEmpty(tags, results, options) ==
    IF Len(tags) = 0 THEN Append(tags, CountTag(Len(results))) ELSE tags

\* the count tag is appended when there is no tag or there are more results
\* than summarized documents
WithCountTag(tags, results, options) ==
    IF Len(tags) = 0 \/ Len(results) > options.maxSummaryDocuments
    THEN Append(tags, CountTag(Len(results))) ELSE tags

\* the forEach over the summary attributes, which reads the first upTo results
SummaryTags(results, options, summaryAttributes, upTo) ==
    IF upTo > 0 /\ \E k \in 1..Len(summaryAttributes) :
                      summaryAttributes[k] = UndefinedAttribute
    THEN Thrown(TypeError)
    ELSE Returned(WithCountTag(TagsOfAttributes(summaryAttributes, 1, results, upTo),
                               results, options))

\* [...new Set(tags)] of what was collected
Deduped(tags) == IF tags.threw THEN tags ELSE Returned(Dedupe(tags.value))

\* variant: the loop over the results is not cut at maxSummaryDocuments
getSummaryTagsOfAll(results, options, cachedSummary) ==
    IF ~IsConfigured(cachedSummary)
    THEN Returned(<<CountTag(Len(results))>>)
    ELSE Deduped(SummaryTags(results, options, cachedSummary, Len(results)))

\* getSummaryTags(results, options), reading cachedSummaryAttributes
getSummaryTags(results, options, cachedSummary) ==
    IF ~IsConfigured(cachedSummary)
    THEN Returned(<<CountTag(Len(results))>>)
    ELSE Deduped(SummaryTags(results, options, cachedSummary,
                             Min(options.maxSummaryDocuments, Len(results))))

getDocumentTitle(result, cachedTitle) ==
    IF ~IsConfigured(cachedTitle) THEN NullStr
    ELSE LET attributeObj == cachedTitle[1]
         IN  Labelled(attributeObj, get(result, attributeObj.attribute))

\* document.push({ key, value }) unless the value is missing or empty
Pushed(attributeObj, v) ==
    IF IsEmptyValue(v) THEN <<>>
    ELSE <<[key |-> attributeObj.label, value |-> parseAttribute(v, attributeObj.parser)]>>

RECURSIVE DocumentOf(_, _, _)
DocumentOf(result, attrs, k) ==
    IF k > Len(attrs) THEN <<>>
    ELSE Pushed(attrs[k], get(result, attrs[k].attribute)) \o DocumentOf(result, attrs, k + 1)

RECURSIVE JoinLower(_, _)
JoinLower(document, k) ==
    IF k > Len(document) THEN <<>>
    ELSE (IF k > 1 THEN <<" ">> ELSE <<>>) \o toLowerCase(document[k].value)
         \o JoinLower(document, k + 1)

\* variant: a document is pushed for every result
DetailOfEveryResult(result, document, cachedTitle) ==
    <<[title          |-> getDocumentTitle(result, cachedTitle),
       attributes     |-> document,
       resultAsString |-> JoinLower(document, 1)]>>

\* details.push({ title, attributes, resultAsString }) unless the document is empty
Detail(result, document, cachedTitle) ==
    IF Len(document) > 0
    THEN <<[title          |-> getDocumentTitle(result, cachedTitle),
            attributes     |-> document,
            resultAsString |-> JoinLower(document, 1)]>>
    ELSE <<>>

RECURSIVE DetailsOf(_, _, _, _)
DetailsOf(results, i, attrs, cachedTitle) ==
    IF i > Len(results) THEN <<>>
    ELSE Detail(results[i], DocumentOf(results[i], attrs, 1), cachedTitle)
         \o DetailsOf(results, i + 1, attrs, cachedTitle)

\* variant: the JSON view starts at the second result
getDetailsAfterFirst(results, complete, queryExecutionId, executionStats, cachedDetail, cachedTitle) ==
    Returned([showAsJson |-> TRUE, results |-> Tail(results), complete |-> complete,
              queryExecutionId |-> queryExecutionId, executionStats |-> executionStats])

\* getDetails(results, options, complete, queryExecutionId, executionStats),
\* reading cachedDetailAttributes and cachedDocumentTitleAttributes
getDetails(results, complete, queryExecutionId, executionStats, cachedDetail, cachedTitle) ==
    IF ~IsConfigured(cachedDetail)
    THEN Returned([showAsJson |-> TRUE, results |-> results, complete |-> complete,
                   queryExecutionId |-> queryExecutionId, executionStats |-> executionStats])
    ELSE IF Len(results) > 0
            /\ (\/ \E k \in 1..Len(cachedDetail) : cachedDetail[k] = UndefinedAttribute
                \/ (IsConfigured(cachedTitle) /\ cachedTitle[1] = UndefinedAttribute))
    THEN Thrown(TypeError)
    ELSE Returned([showAsJson |-> FALSE,
                   results |-> DetailsOf(results, 1, cachedDetail, cachedTitle),
                   complete |-> complete, queryExecutionId |-> queryExecutionId,
                   executionStats |-> executionStats])

(***************************************************************************)
(* Module-level helpers of the integration                                 *)
(***************************************************************************)
Budget == IF impl = "part_001" THEN MAX_QUERY_STATUS_POLLING_ATTEMPTS ELSE maxAttempts

ConnectionChanged(orig, options) ==
    \/ orig.region # options.region
    \/ orig.endpoint # options.endpoint
    \/ orig.accessKeyId # options.accessKeyId
    \/ orig.secretAccessKey # options.secretAccessKey

\* optionsHaveChanged(options): the answer and the new originalOptions
optionsHaveChanged(options, orig) ==
    IF orig = NullObj \/ ConnectionChanged(orig, options)
    THEN [changed |-> TRUE, originalOptions |-> options]
    ELSE [changed |-> FALSE, originalOptions |-> orig]

initializeAthenaClient(options) ==
    [region      |-> options.region,
     credentials |-> IF options.accessKeyId # "" \/ options.secretAccessKey # ""
                     THEN [accessKeyId |-> options.accessKeyId,
                           secretAccessKey |-> options.secretAccessKey]
                     ELSE NullObj]

\* the attribute caches of a process that has just been loaded
NoAttributeCache ==
    [cachedDocumentTitleAttributes |-> NullList, cachedDetailAttributes |-> NullList,
     cachedSummaryAttributes |-> NullList, lastDocumentTitleAttributeOption |-> NullStr,
     lastDetailAttributesOption |-> NullStr, lastSummaryAttributesOption |-> NullStr]

IsBlankOption(option) == option \in {UndefinedStr, NullStr} \/ trim(option) = <<>>

CompileOption(option) ==
    IF IsBlankOption(option) THEN NullList ELSE processAttributeOption(option)

\* the options for which setCachedDisplayAttributes(options) calls
\* processAttributeOption
ParsedOptions(options, cache) ==
    {name \in {"documentTitleAttribute", "detailAttributes", "summaryAttributes"} :
        /\ options[name] # (CASE name = "documentTitleAttribute" ->
                                    cache.lastDocumentTitleAttributeOption
                             [] name = "detailAttributes" -> cache.lastDetailAttributesOption
                             [] OTHER -> cache.lastSummaryAttributesOption)
        /\ ~IsBlankOption(options[name])}

\* variant: the summary list is refreshed when the detail option has changed
setCachedDisplayAttributesCrossed(options, cache) ==
    [cachedDocumentTitleAttributes |->
        IF cache.lastDocumentTitleAttributeOption # options.documentTitleAttribute
        THEN CompileOption(options.documentTitleAttribute)
        ELSE cache.cachedDocumentTitleAttributes,
     lastDocumentTitleAttributeOption |-> options.documentTitleAttribute,
     cachedDetailAttributes |->
        IF cache.lastDetailAttributesOption # options.detailAttributes
        THEN CompileOption(options.detailAttributes)
        ELSE cache.cachedDetailAttributes,
     lastDetailAttributesOption |-> options.detailAttributes,
     cachedSummaryAttributes |->
        IF cache.lastDetailAttributesOption # options.detailAttributes
        THEN CompileOption(options.summaryAttributes)
        ELSE cache.cachedSummaryAttributes,
     lastSummaryAttributesOption |-> options.summaryAttributes]

\* setCachedDisplayAttributes(options): the new values of the six cache variables
setCachedDisplayAttributes(options, cache) ==
    [cachedDocumentTitleAttributes |->
        IF cache.lastDocumentTitleAttributeOption # options.documentTitleAttribute
        THEN CompileOption(options.documentTitleAttribute)
        ELSE cache.cachedDocumentTitleAttributes,
     lastDocumentTitleAttributeOption |-> options.documentTitleAttribute,
     cachedDetailAttributes |->
        IF cache.lastDetailAttributesOption # options.detailAttributes
        THEN CompileOption(options.detailAttributes)
        ELSE cache.cachedDetailAttributes,
     lastDetailAttributesOption |-> options.detailAttributes,
     cachedSummaryAttributes |->
        IF cache.lastSummaryAttributesOption # options.summaryAttributes
        THEN CompileOption(options.summaryAttributes)
        ELSE cache.cachedSummaryAttributes,
     lastSummaryAttributesOption |-> options.summaryAttributes]

errorToPojo(err, detail) ==
    [name |-> err.name, message |-> [fmt |-> err.fmt, args |-> err.args, cause |-> err.cause],
     detail |-> detail]

(***************************************************************************)
(* createQuery of part_001                                                 *)
(***************************************************************************)
RECURSIVE BindParameters(_, _, _)
\* parameters.push(parameterValue)
Push(parameterValue, rest) ==
    IF rest.threw THEN rest ELSE Returned(<<parameterValue>> \o rest.value)

BindNext(entityValue, typeHints, i, p) ==
    IF p.threw THEN Thrown(WrapError("Parameter %s: %s", <<IntToString(i)>>, p.error))
    ELSE Push(p.value, BindParameters(entityValue, typeHints, i + 1))

\* variant: the loop stops after the first placeholder
BindFirstOnly(entityValue, typeHints, i) ==
    IF i > Len(typeHints) \/ i > 1 THEN Returned(<<>>)
    ELSE BindNext(entityValue, typeHints, i,
                  createParameterValue(entityValue, typeHints[i].type))

\* the for loop over the type hints: the literals, or the first conversion error
BindParameters(entityValue, typeHints, i) ==
    IF i > Len(typeHints) THEN Returned(<<>>)
    ELSE BindNext(entityValue, typeHints, i,
                  createParameterValue(entityValue, typeHints[i].type))

\* EXECUTE <name> USING <parameters>
Execute(preparedStatementName, parameters) ==
    IF parameters.threw THEN parameters
    ELSE Returned([QueryString |->
            [kind |-> "EXECUTE", statement |-> preparedStatementName,
             using |-> parameters.value]])

createQuery(entity, options, typeHints, preparedStatementName) ==
    IF includes(options.query, "?")
    THEN IF preparedStatementName = NULL
         THEN Thrown(Error("Prepared statement name required for parameterized queries", <<>>))
         ELSE Execute(preparedStatementName, BindParameters(entity, typeHints, 1))
    ELSE Returned([QueryString |-> [kind |-> "raw", text |-> options.query]])

(***************************************************************************)
(* Query results and their formatting.  Statistics and timestamps of the   *)
(* remote answer are left out of executionStats: the poll loop and the     *)
(* resume path copy them with the same expressions.                        *)
(***************************************************************************)
QueryRunningTag == <<"Q","u","e","r","y"," ","R","u","n","n","i","n","g">>
NoResultsTag == <<"N","o"," ","r","e","s","u","l","t","s">>
StateText(state) ==
    CASE state = "RUNNING" -> <<"R","U","N","N","I","N","G">>
      [] state = "QUEUED" -> <<"Q","U","E","U","E","D">>
      [] OTHER -> <<"R","u","n","n","i","n","g">>

NoStats == [isNull |-> TRUE]
CompleteStats == [runtimeMs |-> "runtime"]
IncompleteStats(status) == [runtimeMs |-> NULL, status |-> status]

QueryResult(results, complete, queryExecutionId, executionStats) ==
    [results |-> results, complete |-> complete, queryExecutionId |-> queryExecutionId,
     executionStats |-> executionStats]

\* { summary, details }, unless one of the two threw
Formatted(summary, details) ==
    IF summary.threw THEN summary
    ELSE IF details.threw THEN details
    ELSE Returned([summary |-> summary.value, details |-> details.value])

\* variant: every query is reported as a complete query without rows
formatAsNoResults(queryResult, options, cache) ==
    Returned([summary |-> <<NoResultsTag>>,
              details |-> [showAsJson |-> FALSE, results |-> <<>>, complete |-> TRUE,
                           queryExecutionId |-> queryResult.queryExecutionId,
                           executionStats |-> queryResult.executionStats]])

\* formatQueryResult(queryResult, options), reading the attribute caches
formatQueryResult(queryResult, options, cache) ==
    IF ~queryResult.complete
    THEN Returned(
           [summary |-> <<QueryRunningTag>>,
            details |->
              [showAsJson |-> FALSE,
               results |-> <<[title |-> <<"Q","u","e","r","y"," ","S","t","a","t","u","s">>,
                              attributes |->
                                <<[key |-> <<"S","t","a","t","u","s">>,
                                   value |-> IF queryResult.executionStats = NoStats
                                             THEN StateText("")
                                             ELSE StateText(queryResult.executionStats.status)],
                                  [key |-> <<"Q","u","e","r","y"," ","E","x","e","c","u","t","i","o","n",
                                           " ","I","D">>,
                                   value |-> queryResult.queryExecutionId]>>]>>,
               complete |-> FALSE,
               queryExecutionId |-> queryResult.queryExecutionId,
               executionStats |-> queryResult.executionStats]])
    ELSE IF Len(queryResult.results) = 0
    THEN Returned(
           [summary |-> <<NoResultsTag>>,
            details |-> [showAsJson |-> FALSE, results |-> <<>>, complete |-> TRUE,
                         queryExecutionId |-> queryResult.queryExecutionId,
                         executionStats |-> queryResult.executionStats]])
    ELSE Formatted(getSummaryTags(queryResult.results, options,
                                  cache.cachedSummaryAttributes),
                   getDetails(queryResult.results, queryResult.complete,
                              queryResult.queryExecutionId, queryResult.executionStats,
                              cache.cachedDetailAttributes,
                              cache.cachedDocumentTitleAttributes))

NoData == [isNull |-> TRUE]

\* { entity, data } of a task's return statement
Entry(entity, data) ==
    IF data.threw THEN data ELSE Returned([entity |-> entity, data |-> data.value])

\* the body of an entity task of part_001 after executeAthenaQuery returned
TaskValue(entity, queryResult, options, cache) ==
    IF ~queryResult.complete
    THEN Entry(entity, formatQueryResult(queryResult, options, cache))
    ELSE IF Len(queryResult.results) = 0
    THEN Returned([entity |-> entity, data |-> NoData])
    ELSE Entry(entity, formatQueryResult(queryResult, options, cache))

(***************************************************************************)
(* The remote service                                                      *)
(***************************************************************************)
NewExecution(region, queryString) ==
    [region |-> region, state |-> "QUEUED", reason |-> UndefinedStr, rows |-> <<>>,
     query |-> queryString]

\* what GetQueryExecution may find: the execution has moved on since the last
\* look, never back
Progress(e) ==
    IF e.state \notin PendingStates THEN {e}
    ELSE {e} \cup {[e EXCEPT !.state = "RUNNING"]}
         \cup {[e EXCEPT !.state = "SUCCEEDED", !.rows = rows] :
                   rows \in RowSets \cup TableRowSets \cup SparseRowSets}
         \cup {[e EXCEPT !.state = st, !.reason = r] : st \in FailedStates, r \in Reasons}
         \cup {[e EXCEPT !.state = UnknownState]}

StatusResult(e) == [State |-> e.state, StateChangeReason |-> e.reason]

\* errors of the AWS SDK
SdkError(name) == [name |-> name, fmt |-> "sdk", args |-> <<>>, cause |-> ""]


(***************************************************************************)
(* Formatting of integration.js: the attribute options are compiled at     *)
(* every call, the tags are not deduplicated, the details carry no status  *)
(***************************************************************************)
SummaryTagsOfIntegration(results, options, summaryAttributes) ==
    IF ~IsConfigured(summaryAttributes)
    THEN Returned(<<CountTag(Len(results))>>)
    ELSE SummaryTags(results, options, summaryAttributes,
                     Min(options.maxSummaryDocuments, Len(results)))

getSummaryTagsOfIntegration(results, options) ==
    SummaryTagsOfIntegration(results, options, CompileOption(options.summaryAttributes))

DetailsOfIntegration(results, detailAttributes, titleAttributes) ==
    IF ~IsConfigured(detailAttributes)
    THEN Returned([showAsJson |-> TRUE, results |-> results])
    ELSE IF Len(results) > 0
            /\ \E k \in 1..Len(detailAttributes) : detailAttributes[k] = UndefinedAttribute
    THEN Thrown(TypeError)
    ELSE Returned([showAsJson |-> FALSE,
                   results |-> DetailsOf(results, 1, detailAttributes, titleAttributes)])

getDetailsOfIntegration(results, options) ==
    DetailsOfIntegration(results, CompileOption(options.detailAttributes),
                         CompileOption(options.documentTitleAttribute))

\* the data of an entity whose query is still running
RunningData(queryExecutionId) ==
    [summary |-> <<QueryRunningTag>>,
     details |->
       [showAsJson |-> FALSE,
        results |-> <<[title |-> <<"Q","u","e","r","y"," ","S","t","a","t","u","s">>,
                       attributes |->
                         <<[key |-> <<"S","t","a","t","u","s">>, value |-> StateText("")],
                           [key |-> <<"Q","u","e","r","y"," ","E","x","e","c","u","t","i","o","n",
                                    " ","I","D">>,
                            value |-> queryExecutionId]>>]>>]]

\* the body of an entity task of integration.js after executeAthenaQuery returned
TaskValueOfIntegration(entity, queryResult, options) ==
    IF ~queryResult.complete
    THEN Returned([entity |-> entity, data |-> RunningData(queryResult.queryExecutionId)])
    ELSE IF Len(queryResult.results) = 0
    THEN Returned([entity |-> entity, data |-> NoData])
    ELSE Entry(entity, Formatted(getSummaryTagsOfIntegration(queryResult.results, options),
                                 getDetailsOfIntegration(queryResult.results, options)))

\* createQuery of integration.js after ensurePreparedStatement returned
createQueryOfIntegration(entity, options, typeHints, preparedStatementName) ==
    IF includes(options.query, "?")
    THEN Execute(preparedStatementName, BindParameters(entity, typeHints, 1))
    ELSE Returned([QueryString |->
            [kind |-> "EXECUTE", statement |-> preparedStatementName, using |-> <<>>]])

(***************************************************************************)
(* Invocation records                                                      *)
(***************************************************************************)
NoCallback == [calls |-> 0, isError |-> FALSE, err |-> NullObj, results |-> <<>>]

IdleLookup ==
    [pc |-> "idle", entities |-> <<>>, options |-> NullObj,
     hintsSet |-> FALSE, typeHints |-> <<>>,      \* options._typeHints
     preparedStatementName |-> NULL,
     errored |-> FALSE,                           \* parallelLimit has reported an error
     settled |-> <<>>,                            \* the tasks in the order they settled
     cb |-> NoCallback]

NoCalls == [start |-> 0, sleep |-> 0, status |-> 0, results |-> 0]

NewTask(entity) ==
    [pc |-> "waiting", entity |-> entity, client |-> NullObj, queryParams |-> NullObj,
     queryExecutionId |-> 0, startedId |-> 0, queryStatus |-> "RUNNING", attempts |-> 0,
     statusResult |-> NoStatusResult, queryResult |-> NullObj,
     value |-> NullObj, error |-> NullObj, calls |-> NoCalls]

NoMessageCalls == [status |-> 0, results |-> 0]

IdleMessage ==
    [pc |-> "idle", action |-> "", queryExecutionId |-> 0, options |-> NullObj,
     region |-> "",                        \* where the call in flight was sent
     statusResult |-> NoStatusResult, queryResult |-> NullObj,
     cb |-> [calls |-> 0, isError |-> FALSE, err |-> NullObj, data |-> NullObj],
     calls |-> NoMessageCalls]

NoEnsure ==
    [pc |-> "idle", processedQuery |-> NullStr, statementExists |-> FALSE,
     region |-> "",                        \* where the call in flight was sent
     answer |-> "",                        \* how the existence check was answered
     existedRemotely |-> FALSE,            \* the remote truth when the check was answered
     gets |-> 0, creates |-> 0, updates |-> 0]

\* the paging component as PolarityComponent.extend declares it, before any
\* block is bound to it
NewComponent == [filterValue |-> <<>>, currentPage |-> 1, pagingData |-> <<>>]

\* what has been asked of the module and of the statement store so far
NoHistory == [lookups |-> 0, resumes |-> 0, writes |-> 0, templates |-> {}]

\* the module variables an entity task reads when it starts
Connection == [client |-> athenaClient, cps |-> currentPreparedStatement, cq |-> currentQuery]

Settled(t) == t.pc \in {"resolved", "rejected"}

\* a task whose async function has returned or thrown
Resolve(t, outcome) ==
    IF outcome.threw THEN [t EXCEPT !.pc = "rejected", !.error = outcome.error]
    ELSE [t EXCEPT !.pc = "resolved", !.value = outcome.value]

\* executeAthenaQuery up to its first await: StartQueryExecution is sent
Submit(t, q, client) ==
    IF q.threw THEN Resolve(t, q)
    ELSE [t EXCEPT !.pc = "start", !.client = client, !.queryParams = q.value,
                   !.calls.start = 1]

\* variant: the existence check is sent whatever the cache holds
EnsureParsedUncached(parsed, cps, cq, client) ==
    [typeHints |-> parsed.typeHints,
     call |-> [NoEnsure EXCEPT !.pc = "get", !.processedQuery = parsed.query,
                               !.region = client.region, !.gets = 1]]

\* the existence check is sent unless the cache is current
EnsureParsed(parsed, cps, cq, client) ==
    [typeHints |-> parsed.typeHints,
     call |-> IF cq # parsed.query \/ cps = NULL
              THEN [NoEnsure EXCEPT !.pc = "get", !.processedQuery = parsed.query,
                                    !.region = client.region, !.gets = 1]
              ELSE [NoEnsure EXCEPT !.pc = "returned", !.processedQuery = parsed.query]]

\* ensurePreparedStatement up to its first await: the type hints are parsed
\* and stored, then the cache is tested
EnsureBegin(query, cps, cq, client) ==
    EnsureParsed(parseTypeHints(query), cps, cq, client)

\* an entity task of part_001 starts: createQuery, then executeAthenaQuery
StartTask(t, lk, client) ==
    Submit(t, createQuery(t.entity, lk.options,
                          IF lk.hintsSet THEN lk.typeHints ELSE <<>>,
                          lk.preparedStatementName),
           client)

\* createQuery of integration.js once ensurePreparedStatement has begun
Ensured(t, lk, conn, ens) ==
    [call |-> ens.call,
     task |-> IF ens.call.pc = "get" THEN [t EXCEPT !.pc = "ensure"]
              ELSE Submit(t, createQueryOfIntegration(t.entity, lk.options, ens.typeHints,
                                                      conn.cps),
                          conn.client)]

\* an entity task of integration.js starts with createQuery, which ensures the
\* prepared statement itself: the task and its ensurePreparedStatement call
StartTaskOfIntegration(t, lk, conn) ==
    Ensured(t, lk, conn, EnsureBegin(lk.options.query, conn.cps, conn.cq, conn.client))

Started(w, j, b) == [w EXCEPT !.tasks[j] = b.task, !.ensureCalls[j] = b.call]

\* task j of the invocation starts; w holds the tasks and the ensure calls
Start(w, j, lk, conn) ==
    IF impl = "part_001"
    THEN [w EXCEPT !.tasks[j] = StartTask(w.tasks[j], lk, conn.client)]
    ELSE Started(w, j, StartTaskOfIntegration(w.tasks[j], lk, conn))

\* async.parallelLimit starts the first tasks, up to the limit, in order
RECURSIVE StartFirst(_, _, _, _)
StartFirst(w, j, lk, conn) ==
    IF j > Len(w.tasks) \/ j > ParallelLimit THEN w
    ELSE StartFirst(Start(w, j, lk, conn), j + 1, lk, conn)

Waiting(ts) == {i \in DOMAIN ts : ts[i].pc = "waiting"}
Running(ts) == {i \in DOMAIN ts : ts[i].pc \notin {"waiting", "resolved", "rejected"}}
Least(S) == CHOOSE i \in S : \A k \in S : i <= k

\* async.parallelLimit: when a task has settled, the next waiting task starts,
\* unless an error was reported
RECURSIVE Replenish(_, _, _)
Replenish(w, lk, conn) ==
    IF \/ \E i \in DOMAIN w.tasks : w.tasks[i].pc = "rejected"
       \/ Waiting(w.tasks) = {}
       \/ Cardinality(Running(w.tasks)) >= ParallelLimit
    THEN w
    ELSE Replenish(Start(w, Least(Waiting(w.tasks)), lk, conn), lk, conn)

\* variant: the list is filled in the order in which the tasks settled
ResultListAsSettled(lk, ts) == [k \in DOMAIN lk.settled |-> ts[lk.settled[k]].value]

\* the result list parallelLimit hands over: slot i holds the value of task i
ResultList(lk, ts) == [i \in DOMAIN ts |-> ts[i].value]

\* variant: cb waits for every task and hands over what there is
ReportPartial(lk, ts, first) ==
    IF lk.cb.calls > 0 THEN lk
    ELSE IF \A i \in DOMAIN ts : Settled(ts[i])
    THEN [lk EXCEPT !.cb = [calls |-> 1, isError |-> FALSE, err |-> NullObj,
                            results |-> ResultList(lk, ts)]]
    ELSE lk

\* async.parallelLimit's callback, then doLookup's try/catch and cb: the first
\* error is reported at once, the results once every task has resolved
Report(lk, ts, first) ==
    IF lk.cb.calls > 0 \/ lk.errored THEN lk
    ELSE IF first # 0
    THEN [lk EXCEPT !.errored = TRUE,
                    !.cb = [calls |-> 1, isError |-> TRUE,
                            err |-> errorToPojo(ts[first].error, "Error running Athena SQL query"),
                            results |-> <<>>]]
    ELSE IF \A i \in DOMAIN ts : ts[i].pc = "resolved"
    THEN [lk EXCEPT !.cb = [calls |-> 1, isError |-> FALSE, err |-> NullObj,
                            results |-> ResultList(lk, ts)]]
    ELSE lk

Finished(lk, ts) ==
    IF lk.pc = "tasks" /\ \A i \in DOMAIN ts : Settled(ts[i])
    THEN [lk EXCEPT !.pc = "done"] ELSE lk

\* the tasks that have settled: those settled before, then the new ones
RECURSIVE SettledOrder(_, _, _)
SettledOrder(ts, before, i) ==
    IF i > Len(ts) THEN before
    ELSE SettledOrder(ts,
                      IF Settled(ts[i]) /\ \A k \in DOMAIN before : before[k] # i
                      THEN Append(before, i) ELSE before,
                      i + 1)

\* the task that was rejected first, 0 if none was
FirstRejected(ts, settled) ==
    IF \E k \in DOMAIN settled : ts[settled[k]].pc = "rejected"
    THEN settled[Least({k \in DOMAIN settled : ts[settled[k]].pc = "rejected"})]
    ELSE 0

Conclude(lk, w) ==
    [tasks |-> w.tasks, ensureCalls |-> w.ensureCalls,
     lookup |-> Finished(Report(lk, w.tasks, FirstRejected(w.tasks, lk.settled)), w.tasks)]

\* after a step of the invocation: parallelLimit's bookkeeping and doLookup's cb
After(lk, w) == Conclude([lk EXCEPT !.settled = SettledOrder(w.tasks, lk.settled, 1)], w)

\* doLookup from the fan-out on: the tasks are built and parallelLimit starts
\* them; every started task runs up to its first remote call
FanOut(lk, calls, conn) ==
    After([lk EXCEPT !.pc = "tasks"],
          StartFirst([tasks |-> [i \in 1..Len(lk.entities) |-> NewTask(lk.entities[i])],
                      ensureCalls |-> calls],
                     1, lk, conn))

\* after a step of task i
Settle(w, i) ==
    After(lookup, IF w.tasks[i].pc = "resolved" THEN Replenish(w, lookup, Connection) ELSE w)

\* the invocation's variables after a step
Apply(out) ==
    /\ lookup' = out.lookup
    /\ tasks' = out.tasks
    /\ ensureCalls' = out.ensureCalls

\* task i has become t
Step(i, t) == Apply(Settle([tasks |-> [tasks EXCEPT ![i] = t], ensureCalls |-> ensureCalls], i))

(***************************************************************************)
(* Inputs                                                                  *)
(***************************************************************************)
\* "a?:int", "a?", "b??" and "c"
QueryInt == <<"a", "?", ":", "i", "n", "t">>
QueryStr == <<"a", "?">>
QueryTwo == <<"b", "?", "?">>
QueryRaw == <<"c">>

EntityValues == {<<"7">>, <<"x">>}

Options(region, query, summaryAttributes, detailAttributes) ==
    [region |-> region, endpoint |-> "", accessKeyId |-> "AKIA", secretAccessKey |-> "secret",
     query |-> query, documentTitleAttribute |-> UndefinedStr,
     detailAttributes |-> detailAttributes, summaryAttributes |-> summaryAttributes,
     maxSummaryDocuments |-> 3]

\* what the remote service may answer to StartQueryExecution
StartErrors ==
    {"InvalidRequestException: output bucket", "InvalidRequestException: no output bucket",
     "InvalidRequestException: syntax", "ThrottlingException", "TimeoutError"}

\* the error object of each: its name and its message ("Unable to
\* verify/create output bucket b1", "no output bucket", "bad", "Rate
\* exceeded", and no message)
StartError(answer) ==
    CASE answer = "InvalidRequestException: output bucket" ->
           [name |-> "InvalidRequestException",
            message |-> <<"U","n","a","b","l","e"," ","t","o"," ","v","e","r","i","f","y","/",
                          "c","r","e","a","t","e"," ","o","u","t","p","u","t"," ",
                          "b","u","c","k","e","t"," ","b","1">>]
      [] answer = "InvalidRequestException: no output bucket" ->
           [name |-> "InvalidRequestException",
            message |-> <<"n","o"," ","o","u","t","p","u","t"," ","b","u","c","k","e","t">>]
      [] answer = "InvalidRequestException: syntax" ->
           [name |-> "InvalidRequestException", message |-> <<"b","a","d">>]
      [] answer = "ThrottlingException" ->
           [name |-> "ThrottlingException",
            message |-> <<"R","a","t","e"," ","e","x","c","e","e","d","e","d">>]
      [] OTHER -> [name |-> answer, message |-> <<>>]
StartAnswers == {"started"} \cup StartErrors

\* what it may answer to GetQueryExecution: an error, or the execution as it is
StatusAnswer(state, reason, rows) ==
    [error |-> FALSE, state |-> state, reason |-> reason, rows |-> rows]
StatusError == [error |-> TRUE]
StatusAnswers ==
    {StatusError}
    \cup {StatusAnswer(st, UndefinedStr, <<>>) : st \in PendingStates \cup {UnknownState}}
    \cup {StatusAnswer("SUCCEEDED", UndefinedStr, rows) : rows \in RowSets}
    \cup {StatusAnswer(st, r, <<>>) : st \in FailedStates, r \in Reasons}

\* what it may answer to GetQueryResults: an error, or ResultSet.Rows
ResultsError == [error |-> TRUE]
ResultsAnswers == {ResultsError} \cup {[error |-> FALSE, rows |-> rows] : rows \in RowSets}

\* what it may answer to GetPreparedStatement
GetAnswers == {"found", "notFound", "failed"}

\* the execution after the answer
Observed(e, answer) ==
    [e EXCEPT !.state = answer.state, !.reason = answer.reason, !.rows = answer.rows]

\* the prepared statement of a region exists
Exists(region) == remoteStatements[region] # NoStatement

(***************************************************************************)
(* Initial state: the module has just been loaded                          *)
(***************************************************************************)
InitModule ==
    /\ originalOptions = NullObj
    /\ athenaClient = NullObj
    /\ currentPreparedStatement = NULL
    /\ currentQuery = NullStr
    /\ attributeCache =
         [cachedDocumentTitleAttributes |-> NullList, cachedDetailAttributes |-> NullList,
          cachedSummaryAttributes |-> NullList, lastDocumentTitleAttributeOption |-> NullStr,
          lastDetailAttributesOption |-> NullStr, lastSummaryAttributesOption |-> NullStr]
    /\ lookup = IdleLookup
    /\ ensureCalls = [c \in {0} |-> NoEnsure]
    /\ tasks = <<>>
    /\ message = IdleMessage
    /\ history = NoHistory
    /\ component = NewComponent

(***************************************************************************)
(* doLookup                                                                *)
(***************************************************************************)
Recorded(h, options) ==
    [h EXCEPT !.lookups = @ + 1,
              !.templates = @ \cup {parseTypeHints(options.query).query}]

\* the client and the statement cache after the test of the connection options
Connected(changed, options) ==
    IF changed \/ athenaClient = NullObj
    THEN [client |-> initializeAthenaClient(options), cps |-> NULL, cq |-> NullStr]
    ELSE Connection

Connect(conn) ==
    /\ athenaClient' = conn.client
    /\ currentPreparedStatement' = conn.cps
    /\ currentQuery' = conn.cq

\* doLookup of part_001 from the placeholder test to its first await
Prepare(lk, conn, ens) ==
    IF ~includes(lk.options.query, "?")
    THEN FanOut(lk, [c \in {0} |-> NoEnsure], conn)
    ELSE IF ens.call.pc = "get"
    THEN [lookup |-> [lk EXCEPT !.pc = "ensure", !.hintsSet = TRUE,
                                !.typeHints = ens.typeHints],
          tasks |-> <<>>,
          ensureCalls |-> [c \in {0} |-> ens.call]]
    ELSE FanOut([lk EXCEPT !.hintsSet = TRUE, !.typeHints = ens.typeHints,
                           !.preparedStatementName = conn.cps],
                [c \in {0} |-> ens.call], conn)

Dispatch(lk, conn) ==
    /\ Connect(conn)
    /\ Apply(Prepare(lk, conn, EnsureBegin(lk.options.query, conn.cps, conn.cq, conn.client)))

Changed(entities, options, oc) ==
    /\ originalOptions' = oc.originalOptions
    /\ Dispatch([IdleLookup EXCEPT !.entities = entities, !.options = options],
                Connected(oc.changed, options))

\* doLookup of part_001 up to its first await
doLookup(entities, options) ==
    /\ impl = "part_001"
    /\ lookup.pc \in {"idle", "done", "threw"}
    /\ Changed(entities, options,
               optionsHaveChanged(options, IF originalOptions = NullObj THEN options
                                           ELSE originalOptions))
    /\ attributeCache' = setCachedDisplayAttributes(options, attributeCache)
    /\ history' = Recorded(history, options)
    /\ UNCHANGED <<component, impl, remoteStatements, executions, message>>

DispatchOfIntegration(lk, conn) ==
    /\ Connect(conn)
    /\ Apply(FanOut(lk, [c \in 1..Len(lk.entities) |-> NoEnsure], conn))

ChangedOfIntegration(entities, options, changed) ==
    /\ originalOptions' = IF changed THEN options ELSE originalOptions
    /\ DispatchOfIntegration(
           [IdleLookup EXCEPT !.entities = entities, !.options = options,
                              !.hintsSet = entities # <<>>,
                              !.typeHints = IF entities # <<>>
                                            THEN parseTypeHints(options.query).typeHints
                                            ELSE <<>>],
           Connected(changed, options))

\* doLookup of integration.js up to its first await; fresh: options.region is
\* not the object the previous call passed
doLookupOfIntegration(entities, options, fresh) ==
    /\ impl = "integration"
    /\ lookup.pc \in {"idle", "done", "threw"}
    /\ (originalOptions # NullObj /\ ~fresh) => originalOptions.region = options.region
    /\ ChangedOfIntegration(entities, options,
                            \/ originalOptions = NullObj
                            \/ fresh
                            \/ ConnectionChanged(originalOptions, options))
    /\ history' = Recorded(history, options)
    /\ UNCHANGED <<component, impl, attributeCache, remoteStatements, executions, message>>

(***************************************************************************)
(* ensurePreparedStatement after its awaits.  Caller 0 is doLookup of      *)
(* part_001, caller i the createQuery of entity task i of integration.js   *)
(***************************************************************************)
\* variant: the statement is created whatever the check found
WriteAfterAsCreate(call, answer, region) ==
    [call EXCEPT !.pc = "write", !.statementExists = FALSE, !.region = region,
                 !.updates = 0, !.creates = 1]

\* variant: only a missing statement is taken for a missing statement, any
\* other failure of the check is thrown on
WriteAfterUnlessFailed(call, answer, region) ==
    IF answer = "failed" THEN [call EXCEPT !.pc = "threw", !.region = region]
    ELSE [call EXCEPT !.pc = "write",
                      !.statementExists = (answer = "found"),
                      !.region = region,
                      !.updates = IF answer = "found" THEN 1 ELSE 0,
                      !.creates = IF answer = "found" THEN 0 ELSE 1]

\* the write that follows the existence check
WriteAfter(call, answer, region) ==
    [call EXCEPT !.pc = "write",
                 !.statementExists = (answer = "found"),
                 !.region = region,
                 !.updates = IF answer = "found" THEN 1 ELSE 0,
                 !.creates = IF answer = "found" THEN 0 ELSE 1]

\* GetPreparedStatement is answered: found, not found, or another failure
EnsureGetReturn(c, answer) ==
    /\ c \in DOMAIN ensureCalls
    /\ ensureCalls[c].pc = "get"
    /\ answer = "found" => Exists(ensureCalls[c].region)
    /\ answer = "notFound" => ~Exists(ensureCalls[c].region)
    /\ ensureCalls' =
         [ensureCalls EXCEPT ![c] =
            [WriteAfter(ensureCalls[c], answer, athenaClient.region)
               EXCEPT !.answer = answer,
                      !.existedRemotely = Exists(ensureCalls[c].region)]]
    /\ history' = [history EXCEPT !.writes = @ + 1]
    /\ UNCHANGED <<component, impl, originalOptions, athenaClient, currentPreparedStatement, currentQuery,
                   attributeCache, remoteStatements, executions, lookup, tasks, message>>

\* the caller of ensurePreparedStatement goes on, or fails with the write
AfterWrite(c, ok, calls) ==
    IF c = 0
    THEN IF ok
         THEN FanOut([lookup EXCEPT !.preparedStatementName = statementName], calls,
                     [client |-> athenaClient, cps |-> statementName,
                      cq |-> ensureCalls[c].processedQuery])
         ELSE [lookup |-> [lookup EXCEPT !.pc = "threw"], tasks |-> tasks,
               ensureCalls |-> calls]
    ELSE Settle([tasks |->
                   [tasks EXCEPT ![c] =
                      IF ok
                      THEN Submit(tasks[c],
                                  createQueryOfIntegration(tasks[c].entity, lookup.options,
                                                           lookup.typeHints, statementName),
                                  athenaClient)
                      ELSE Resolve(tasks[c], Thrown(SdkError("InvalidRequestException")))],
                 ensureCalls |-> calls], c)

\* variant: the cache is set when the write is sent, not when it has succeeded
EnsureWriteReturnCacheFirst(c, ok) ==
    /\ c \in DOMAIN ensureCalls
    /\ ensureCalls[c].pc = "write"
    /\ ok => (ensureCalls[c].statementExists <=> Exists(ensureCalls[c].region))
    /\ remoteStatements' =
         IF ok THEN [remoteStatements EXCEPT ![ensureCalls[c].region] =
                                                 ensureCalls[c].processedQuery]
         ELSE remoteStatements
    /\ currentPreparedStatement' = statementName
    /\ currentQuery' = ensureCalls[c].processedQuery
    /\ Apply(AfterWrite(c, ok, [ensureCalls EXCEPT ![c].pc = IF ok THEN "returned"
                                                             ELSE "threw"]))
    /\ UNCHANGED <<component, impl, originalOptions, athenaClient, attributeCache, executions, message,
                   history>>

\* UpdatePreparedStatement or CreatePreparedStatement is answered
EnsureWriteReturn(c, ok) ==
    /\ c \in DOMAIN ensureCalls
    /\ ensureCalls[c].pc = "write"
    /\ ok => (ensureCalls[c].statementExists <=> Exists(ensureCalls[c].region))
    /\ remoteStatements' =
         IF ok THEN [remoteStatements EXCEPT ![ensureCalls[c].region] =
                                                 ensureCalls[c].processedQuery]
         ELSE remoteStatements
    /\ currentPreparedStatement' = IF ok THEN statementName ELSE currentPreparedStatement
    /\ currentQuery' = IF ok THEN ensureCalls[c].processedQuery ELSE currentQuery
    /\ Apply(AfterWrite(c, ok, [ensureCalls EXCEPT ![c].pc = IF ok THEN "returned"
                                                             ELSE "threw"]))
    /\ UNCHANGED <<component, impl, originalOptions, athenaClient, attributeCache, executions, message,
                   history>>

(***************************************************************************)
(* executeAthenaQuery, one action per await                                *)
(***************************************************************************)
\* executeAthenaQuery has returned queryResult: the rest of the task body
Return(t, queryResult) ==
    Resolve([t EXCEPT !.queryResult = queryResult],
            IF impl = "part_001"
            THEN TaskValue(t.entity, queryResult, lookup.options, attributeCache)
            ELSE TaskValueOfIntegration(t.entity, queryResult, lookup.options))

\* what executeAthenaQuery returns when it stops polling
Suspended(t) ==
    QueryResult(UndefinedStr, FALSE, t.queryExecutionId,
                IF impl = "part_001" THEN IncompleteStats("RUNNING") ELSE NoStats)

\* variant: the loop tests the counter one check too late
ExhaustedLate(attempts) == attempts > Budget

\* the test of the attempt counter inside the while loop
Exhausted(attempts) == attempts >= Budget

\* what follows the while loop
AfterLoop(t) ==
    IF t.queryStatus \in FailedStates
    THEN Resolve(t, Thrown(IF t.queryStatus = "FAILED"
                           THEN Error("Query failed: %s", <<t.statusResult.StateChangeReason>>)
                           ELSE Error("Query was cancelled", <<>>)))
    ELSE [t EXCEPT !.pc = "results", !.calls.results = @ + 1]

\* the while loop's test and what follows it, up to the next await
PollLoop(t) ==
    IF t.queryStatus \in PendingStates
    THEN IF Exhausted(t.attempts) THEN Return(t, Suspended(t))
         ELSE [t EXCEPT !.pc = "sleep", !.calls.sleep = @ + 1]
    ELSE AfterLoop(t)

\* the position of the first occurrence of text in s from position from on,
\* or 0
RECURSIVE IndexOfText(_, _, _)
IndexOfText(s, text, from) ==
    IF from + Len(text) - 1 > Len(s) THEN 0
    ELSE IF SubSeq(s, from, from + Len(text) - 1) = text THEN from
    ELSE IndexOfText(s, text, from + 1)

RECURSIVE NonSpaceRunLen(_, _)
NonSpaceRunLen(s, i) ==
    IF i > Len(s) \/ s[i] \in WhiteSpace THEN 0 ELSE 1 + NonSpaceRunLen(s, i + 1)

\* message.match(/bucket ([^\s]+)/): the first "bucket " that a character
\* other than white space follows, and the run of such characters after it
RECURSIVE BucketMatch(_, _)
BucketMatch(s, from) ==
    IF IndexOfText(s, <<"b","u","c","k","e","t"," ">>, from) = 0
    THEN <<"u","n","k","n","o","w","n">>
    ELSE IF NonSpaceRunLen(s, IndexOfText(s, <<"b","u","c","k","e","t"," ">>, from) + 7) > 0
    THEN SubSeq(s, IndexOfText(s, <<"b","u","c","k","e","t"," ">>, from) + 7,
                IndexOfText(s, <<"b","u","c","k","e","t"," ">>, from) + 6
                + NonSpaceRunLen(s, IndexOfText(s, <<"b","u","c","k","e","t"," ">>, from) + 7))
    ELSE BucketMatch(s, IndexOfText(s, <<"b","u","c","k","e","t"," ">>, from) + 1)

\* the Error the catch block throws in place of the one it caught
StartErrorThrown(error) ==
    IF /\ error.name = "InvalidRequestException"
       /\ error.message # <<>>
       /\ IndexOfText(error.message, <<"o","u","t","p","u","t"," ","b","u","c","k","e","t">>, 1) > 0
    THEN Error("S3 output bucket error: %s. Please ensure the bucket '%s' exists",
               <<error.message, BucketMatch(error.message, 1)>>)
    ELSE Error("Failed to start Athena query: %s",
               <<IF error.message # <<>> THEN error.message ELSE <<error.name>>>>)

\* variant: the error of the remote client is thrown on as it is
StartFailedAsCaught(t, answer) ==
    Resolve(t, Thrown([name |-> StartError(answer).name, fmt |-> "sdk",
                       args |-> <<StartError(answer).message>>, cause |-> ""]))

\* the catch block around StartQueryExecution
StartFailed(t, answer) == Resolve(t, Thrown(StartErrorThrown(StartError(answer))))

\* executeAthenaQuery once StartQueryExecution has returned the id
Polling(t, id) ==
    PollLoop([t EXCEPT !.queryExecutionId = id, !.startedId = id,
                       !.queryStatus = "RUNNING", !.attempts = 0])

\* StartQueryExecution is answered
TaskStartReturn(i, answer) ==
    /\ i \in DOMAIN tasks
    /\ tasks[i].pc = "start"
    /\ executions' =
         IF answer = "started"
         THEN Append(executions, NewExecution(tasks[i].client.region,
                                              tasks[i].queryParams.QueryString))
         ELSE executions
    /\ Step(i, IF answer = "started" THEN Polling(tasks[i], Len(executions) + 1)
               ELSE StartFailed(tasks[i], answer))
    /\ UNCHANGED <<component, impl, originalOptions, athenaClient, currentPreparedStatement, currentQuery,
                   attributeCache, remoteStatements, message, history>>

\* the polling timer fires and GetQueryExecution is sent
TaskSleepDone(i) ==
    /\ i \in DOMAIN tasks
    /\ tasks[i].pc = "sleep"
    /\ tasks' = [tasks EXCEPT ![i].pc = "status", ![i].calls.status = @ + 1]
    /\ UNCHANGED <<component, impl, originalOptions, athenaClient, currentPreparedStatement, currentQuery,
                   attributeCache, remoteStatements, executions, lookup, ensureCalls, message,
                   history>>

\* the loop body after GetQueryExecution returned statusResult
Polled(t, e) ==
    PollLoop([t EXCEPT !.statusResult = StatusResult(e), !.queryStatus = e.state,
                       !.attempts = @ + 1])

\* the execution task i polls
ExecutionOf(i) == executions[tasks[i].queryExecutionId]

\* GetQueryExecution is answered
TaskStatusReturn(i, answer) ==
    /\ i \in DOMAIN tasks
    /\ tasks[i].pc = "status"
    /\ IF answer.error
       THEN /\ UNCHANGED executions
            /\ Step(i, Resolve(tasks[i], Thrown(SdkError("ThrottlingException"))))
       ELSE /\ Observed(ExecutionOf(i), answer) \in Progress(ExecutionOf(i))
            /\ executions' = [executions EXCEPT ![tasks[i].queryExecutionId] =
                                                    Observed(ExecutionOf(i), answer)]
            /\ Step(i, Polled(tasks[i], Observed(ExecutionOf(i), answer)))
    /\ UNCHANGED <<component, impl, originalOptions, athenaClient, currentPreparedStatement, currentQuery,
                   attributeCache, remoteStatements, message, history>>

\* executeAthenaQuery after GetQueryResults returned the rows
Fetched(t, rows) ==
    Return(t, QueryResult(MaterializeRows(rows), TRUE, t.queryExecutionId,
                          IF impl = "part_001" THEN CompleteStats ELSE NoStats))

\* GetQueryResults is answered: the rows of a succeeded execution; for an
\* execution in another state the service may answer anything
TaskResultsReturn(i, answer) ==
    /\ i \in DOMAIN tasks
    /\ tasks[i].pc = "results"
    /\ (~answer.error /\ ExecutionOf(i).state = "SUCCEEDED") => answer.rows = ExecutionOf(i).rows
    /\ Step(i, IF answer.error
               THEN Resolve(tasks[i], Thrown(SdkError("InvalidRequestException")))
               ELSE Fetched(tasks[i], answer.rows))
    /\ UNCHANGED <<component, impl, originalOptions, athenaClient, currentPreparedStatement, currentQuery,
                   attributeCache, remoteStatements, executions, message, history>>

(***************************************************************************)
(* onMessage of part_001 and checkQueryStatusAndGetResults                 *)
(***************************************************************************)
MessageActions == {"CHECK_QUERY_STATUS", "OTHER"}

UnknownErrorText == <<"U","n","k","n","o","w","n"," ","e","r","r","o","r">>

MessageError(m, err) ==
    [m EXCEPT !.pc = "done",
              !.cb = [calls |-> 1, isError |-> TRUE, err |-> err, data |-> NullObj]]

\* the catch block of onMessage
MessageCaught(m, error) ==
    MessageError(m, errorToPojo(error, "Error checking Athena query status"))

\* cb(null, responseData), unless formatQueryResult threw
Respond(m, queryResult, responseData) ==
    IF responseData.threw THEN MessageCaught(m, responseData.error)
    ELSE [m EXCEPT !.pc = "done", !.queryResult = queryResult,
                   !.cb = [calls |-> 1, isError |-> FALSE, err |-> NullObj,
                           data |-> responseData.value]]

\* checkQueryStatusAndGetResults has returned: formatQueryResult, then cb
MessageReturn(m, queryResult, cache) ==
    Respond(m, queryResult, formatQueryResult(queryResult, m.options, cache))

\* variant: the status check is sent twice
SendStatusTwice(m, client) ==
    [m EXCEPT !.pc = "status", !.region = client.region, !.calls.status = @ + 2]

\* checkQueryStatusAndGetResults up to its first await: GetQueryExecution is sent
SendStatus(m, client) ==
    [m EXCEPT !.pc = "status", !.region = client.region, !.calls.status = @ + 1]

\* checkQueryStatusAndGetResults after the status check
AfterStatus(m, queryStatus, reason, client, cache) ==
    IF queryStatus = "SUCCEEDED"
    THEN [m EXCEPT !.pc = "results", !.region = client.region, !.calls.results = @ + 1]
    ELSE IF queryStatus \in PendingStates
    THEN MessageReturn(m, QueryResult(<<>>, FALSE, m.queryExecutionId,
                                      IncompleteStats(queryStatus)), cache)
    ELSE IF queryStatus \in FailedStates
    THEN MessageCaught(m, Error(IF queryStatus = "FAILED" THEN "Query failed: %s"
                                ELSE "Query cancelled: %s",
                                <<IF reason = UndefinedStr THEN UnknownErrorText ELSE reason>>))
    ELSE MessageCaught(m, Error("Unknown query status: %s", <<>>))

\* variant: the attribute caches are left as the last call set them
ResumeOnOldCaches(m, options, oc) ==
    /\ originalOptions' = oc.originalOptions
    /\ athenaClient' = Connected(oc.changed, options).client
    /\ attributeCache' = attributeCache
    /\ message' = SendStatus(m, Connected(oc.changed, options).client)
    /\ history' = [history EXCEPT !.resumes = @ + 1]

\* onMessage from the test of the connection options to its first await
Resume(m, options, oc) ==
    /\ originalOptions' = oc.originalOptions
    /\ athenaClient' = Connected(oc.changed, options).client
    /\ attributeCache' = setCachedDisplayAttributes(options, attributeCache)
    /\ message' = SendStatus(m, Connected(oc.changed, options).client)
    /\ history' = [history EXCEPT !.resumes = @ + 1]

\* onMessage when the message is rejected at once
Reject(m, text) ==
    /\ message' = MessageError(m, [error |-> text])
    /\ UNCHANGED <<originalOptions, athenaClient, attributeCache, history>>

\* variant: every message is taken for a resumption
RoutedAlways(m, options) == Resume(m, options, optionsHaveChanged(options, originalOptions))

\* onMessage: the test of the action and of the execution id
Routed(m, options) ==
    IF m.action # "CHECK_QUERY_STATUS" THEN Reject(m, "Unknown action: %s")
    ELSE IF m.queryExecutionId = 0 THEN Reject(m, "Missing queryExecutionId in message")
    ELSE Resume(m, options, optionsHaveChanged(options, originalOptions))

onMessage(action, queryExecutionId, options) ==
    /\ impl = "part_001"
    /\ message.pc \in {"idle", "done"}
    /\ history.resumes < MaxResumes
    /\ Routed([IdleMessage EXCEPT !.action = action, !.queryExecutionId = queryExecutionId,
                                  !.options = options],
              options)
    /\ UNCHANGED <<component, impl, currentPreparedStatement, currentQuery, remoteStatements, executions,
                   lookup, ensureCalls, tasks>>

\* the execution as the client that asks can see it
Visible(id, region) == id \in DOMAIN executions /\ executions[id].region = region

\* the execution the message is about
ExecutionOfMessage == executions[message.queryExecutionId]

\* GetQueryExecution is answered
MessageStatusReturn(answer) ==
    /\ message.pc = "status"
    /\ IF answer.error
       THEN /\ message' = MessageCaught(message, SdkError("InvalidRequestException"))
            /\ UNCHANGED executions
       ELSE /\ Visible(message.queryExecutionId, message.region)
            /\ Observed(ExecutionOfMessage, answer) \in Progress(ExecutionOfMessage)
            /\ executions' = [executions EXCEPT ![message.queryExecutionId] =
                                                    Observed(ExecutionOfMessage, answer)]
            /\ message' =
                 AfterStatus([message EXCEPT
                                !.statusResult =
                                    StatusResult(Observed(ExecutionOfMessage, answer))],
                             answer.state, answer.reason, athenaClient, attributeCache)
    /\ UNCHANGED <<component, impl, originalOptions, athenaClient, currentPreparedStatement, currentQuery,
                   attributeCache, remoteStatements, lookup, ensureCalls, tasks, history>>

\* GetQueryResults is answered
MessageResultsReturn(answer) ==
    /\ message.pc = "results"
    /\ IF answer.error
       THEN message' = MessageCaught(message, SdkError("InvalidRequestException"))
       ELSE /\ Visible(message.queryExecutionId, message.region)
            /\ answer.rows = ExecutionOfMessage.rows
            /\ message' = MessageReturn(message,
                                        QueryResult(MaterializeRows(answer.rows), TRUE,
                                                    message.queryExecutionId, CompleteStats),
                                        attributeCache)
    /\ UNCHANGED <<component, impl, originalOptions, athenaClient, currentPreparedStatement, currentQuery,
                   attributeCache, remoteStatements, executions, lookup, ensureCalls, tasks,
                   history>>

(***************************************************************************)
(* The polling of one query: one doLookup call with one entity under       *)
(* either build, every answer of the remote service, and resumptions       *)
(***************************************************************************)
Builds == {"part_001", "integration"}

NoStatements == [r \in Regions |-> NoStatement]

PollOptions == {Options("us-east-1", q, <<"a">>, UndefinedStr) : q \in {QueryInt, QueryRaw}}

InitPoll ==
    /\ impl \in Builds
    /\ InitModule
    /\ remoteStatements = NoStatements
    /\ executions = <<>>

NextPoll ==
    \/ \E entity \in EntityValues, options \in PollOptions :
          history.lookups = 0 /\ doLookup(<<entity>>, options)
    \/ \E entity \in EntityValues, options \in PollOptions :
          history.lookups = 0 /\ doLookupOfIntegration(<<entity>>, options, TRUE)
    \/ \E c \in DOMAIN ensureCalls, answer \in GetAnswers : EnsureGetReturn(c, answer)
    \/ \E c \in DOMAIN ensureCalls, ok \in BOOLEAN : EnsureWriteReturn(c, ok)
    \/ \E i \in DOMAIN tasks, answer \in StartAnswers : TaskStartReturn(i, answer)
    \/ \E i \in DOMAIN tasks : TaskSleepDone(i)
    \/ \E i \in DOMAIN tasks, answer \in StatusAnswers : TaskStatusReturn(i, answer)
    \/ \E i \in DOMAIN tasks, answer \in ResultsAnswers : TaskResultsReturn(i, answer)
    \/ \E action \in MessageActions, id \in 0..Len(executions), options \in PollOptions :
          onMessage(action, id, options)
    \/ \E answer \in StatusAnswers : MessageStatusReturn(answer)
    \/ \E answer \in ResultsAnswers : MessageResultsReturn(answer)

SpecPoll == InitPoll /\ [][NextPoll]_vars

(***************************************************************************)
(* The fan-out of one doLookup call over its entities, under either build  *)
(***************************************************************************)
FanOptions == {Options("us-east-1", q, <<"a">>, UndefinedStr) : q \in {QueryInt, QueryStr}}

FanEntities == SeqsUpTo(EntityValues, MaxEntities)

\* an execution keeps running, succeeds with one row, or fails
FanStatusAnswers ==
    {StatusError, StatusAnswer("RUNNING", UndefinedStr, <<>>),
     StatusAnswer("SUCCEEDED", UndefinedStr, <<HeaderRow, RowX>>),
     StatusAnswer("FAILED", <<"o", "o", "m">>, <<>>)}

FanResultsAnswers == {ResultsError, [error |-> FALSE, rows |-> <<HeaderRow, RowX>>]}

FanStartAnswers == {"started", "ThrottlingException"}

FanGetAnswers == {"found", "notFound"}

InitFan ==
    /\ impl \in Builds
    /\ InitModule
    /\ remoteStatements = NoStatements
    /\ executions = <<>>

NextFan ==
    \/ \E entities \in FanEntities, options \in FanOptions :
          history.lookups = 0 /\ doLookup(entities, options)
    \/ \E entities \in FanEntities, options \in FanOptions :
          history.lookups = 0 /\ doLookupOfIntegration(entities, options, TRUE)
    \/ \E c \in DOMAIN ensureCalls, answer \in FanGetAnswers : EnsureGetReturn(c, answer)
    \/ \E c \in DOMAIN ensureCalls, ok \in BOOLEAN : EnsureWriteReturn(c, ok)
    \/ \E i \in DOMAIN tasks, answer \in FanStartAnswers : TaskStartReturn(i, answer)
    \/ \E i \in DOMAIN tasks : TaskSleepDone(i)
    \/ \E i \in DOMAIN tasks, answer \in FanStatusAnswers : TaskStatusReturn(i, answer)
    \/ \E i \in DOMAIN tasks, answer \in FanResultsAnswers : TaskResultsReturn(i, answer)

SpecFan == InitFan /\ [][NextFan]_vars

(***************************************************************************)
(* The prepared statement over a run of doLookup calls, one after the      *)
(* other, under either build; every query succeeds at its first check      *)
(***************************************************************************)
\* "a?:int" and "a?" have the same canonical text, "b??" has another
StmtOptions ==
    {Options(region, q, UndefinedStr, UndefinedStr) :
        region \in Regions, q \in {QueryInt, QueryStr, QueryTwo}}

StmtEntities == {es \in SeqsUpTo({<<"7">>}, MaxEntities) : es # <<>>}

StmtStatusAnswers == {StatusAnswer("SUCCEEDED", UndefinedStr, <<HeaderRow, RowX>>)}

StmtResultsAnswers == {[error |-> FALSE, rows |-> <<HeaderRow, RowX>>]}

\* a statement of an earlier run of the integration may be there
InitStmt ==
    /\ impl \in Builds
    /\ InitModule
    /\ remoteStatements \in [Regions -> {NoStatement, parseTypeHints(QueryTwo).query}]
    /\ executions = <<>>

NextStmt ==
    \/ \E entities \in StmtEntities, options \in StmtOptions :
          history.lookups < MaxLookups /\ doLookup(entities, options)
    \/ \E entities \in StmtEntities, options \in StmtOptions, fresh \in BOOLEAN :
          history.lookups < MaxLookups /\ doLookupOfIntegration(entities, options, fresh)
    \/ \E c \in DOMAIN ensureCalls, answer \in GetAnswers : EnsureGetReturn(c, answer)
    \/ \E c \in DOMAIN ensureCalls, ok \in BOOLEAN : EnsureWriteReturn(c, ok)
    \/ \E i \in DOMAIN tasks : TaskStartReturn(i, "started")
    \/ \E i \in DOMAIN tasks : TaskSleepDone(i)
    \/ \E i \in DOMAIN tasks, answer \in StmtStatusAnswers : TaskStatusReturn(i, answer)
    \/ \E i \in DOMAIN tasks, answer \in StmtResultsAnswers : TaskResultsReturn(i, answer)

SpecStmt == InitStmt /\ [][NextStmt]_vars

(***************************************************************************)
(* The connection over a run of doLookup calls of part_001 with            *)
(* resumptions in between; the region of the options varies                *)
(***************************************************************************)
ConnOptions == {Options(region, QueryStr, UndefinedStr, UndefinedStr) : region \in Regions}

ConnStatusAnswers == {StatusError} \cup StmtStatusAnswers

InitConn ==
    /\ impl = "part_001"
    /\ InitModule
    /\ remoteStatements = NoStatements
    /\ executions = <<>>

NextConn ==
    \/ \E options \in ConnOptions :
          history.lookups < MaxLookups /\ doLookup(<<<<"7">>>>, options)
    \/ \E answer \in GetAnswers : EnsureGetReturn(0, answer)
    \/ \E ok \in BOOLEAN : EnsureWriteReturn(0, ok)
    \/ \E i \in DOMAIN tasks : TaskStartReturn(i, "started")
    \/ \E i \in DOMAIN tasks : TaskSleepDone(i)
    \/ \E i \in DOMAIN tasks, answer \in StmtStatusAnswers : TaskStatusReturn(i, answer)
    \/ \E i \in DOMAIN tasks, answer \in StmtResultsAnswers : TaskResultsReturn(i, answer)
    \/ \E id \in 0..Len(executions), options \in ConnOptions :
          onMessage("CHECK_QUERY_STATUS", id, options)
    \/ \E answer \in ConnStatusAnswers : MessageStatusReturn(answer)
    \/ \E answer \in StmtResultsAnswers : MessageResultsReturn(answer)

SpecConn == InitConn /\ [][NextConn]_vars

(***************************************************************************)
(* The binding of one entity value: one doLookup call of part_001 with one *)
(* entity, the template and the value drawn from the sets below            *)
(***************************************************************************)
\* the type tags a template may carry: those of the switch, one in capitals
\* and one the switch does not know
BindTags ==
    IntegerTypes \cup DecimalTypes \cup BooleanTypes
    \cup {StringType, <<"v","a","r","c","h","a","r">>, <<"c","h","a","r">>,
          <<"I","n","t">>, <<"d","a","t","e">>}

\* "a?", "a?:<tag>", and templates with two placeholders, with a colon that
\* no tag follows, with a tag between two placeholders and with a colon and
\* a word after the tag
BindQueries ==
    {QueryStr, QueryTwo}
    \cup {<<"a", "?", ":">> \o tag : tag \in BindTags}
    \cup {<<"?", ":", "i", "n", "t", " ", "?", ":", "b", "o", "o", "l">>,
          <<"a", "?", ":", " ", "?">>,
          <<"?", ":", ":", "i", "n", "t">>,
          <<"?", "?", ":", "B", "_", "9", "?">>,
          <<"a", "?", ":", "i", "n", "t", ":", "b">>}

\* entity values: numbers, numbers followed or preceded by other text, the
\* boolean words, and text with quotes, backslashes and line breaks
BindValues ==
    {<<"7">>, <<"-", "7">>, <<" ", "7">>, <<"7", "x">>, <<"x">>, <<"x", "7">>,
     <<"1", ".", "5">>, <<"1", ".", "5", "x">>, <<".", "5">>, <<"1", "e", "2">>,
     <<"0">>, <<"1">>, <<"t", "r", "u", "e">>, <<"T", "r", "u", "E">>,
     <<"f", "a", "l", "s", "e">>, <<"y", "e", "s">>, <<"t", "r", "u", "e", " ">>,
     <<"a", "'", "b">>, <<"a", "\\", "b">>, <<"a", "\n", "b">>, <<"a", "\r", "\n", "b">>,
     <<"\\", "'">>, <<"'", "'">>, <<"\\", "\\", "'", "\n">>}

BindOptions == {Options("us-east-1", q, UndefinedStr, UndefinedStr) : q \in BindQueries}

InitBind ==
    /\ impl = "part_001"
    /\ InitModule
    /\ remoteStatements = NoStatements
    /\ executions = <<>>

NextBind ==
    \/ \E entity \in BindValues, options \in BindOptions :
          history.lookups = 0 /\ doLookup(<<entity>>, options)
    \/ \E answer \in GetAnswers : EnsureGetReturn(0, answer)
    \/ \E ok \in BOOLEAN : EnsureWriteReturn(0, ok)
    \/ \E i \in DOMAIN tasks, answer \in FanStartAnswers : TaskStartReturn(i, answer)

SpecBind == InitBind /\ [][NextBind]_vars

(***************************************************************************)
(* The rows of one query: one doLookup call of part_001 with one entity    *)
(* and a template without placeholder, the result table and the summary    *)
(* options drawn from the sets below, and resumptions with the same        *)
(* options                                                                 *)
(***************************************************************************)
\* no summary attribute, the bare path "a", the labelled path "L:a" and the
\* path with an empty label ":a"
RowsSummaryOptions == {UndefinedStr, <<"a">>, <<"L", ":", "a">>, <<":", "a">>}
RowsMaxSummaryDocuments == {1, 3}

RowsOptions ==
    {[Options("us-east-1", QueryRaw, summaryAttributes, UndefinedStr)
         EXCEPT !.maxSummaryDocuments = maxSummaryDocuments] :
        summaryAttributes \in RowsSummaryOptions,
        maxSummaryDocuments \in RowsMaxSummaryDocuments}

RowsStatusAnswers == {StatusAnswer("SUCCEEDED", UndefinedStr, rows) : rows \in TableRowSets}
RowsResultsAnswers == {[error |-> FALSE, rows |-> rows] : rows \in TableRowSets}

InitRows ==
    /\ impl = "part_001"
    /\ InitModule
    /\ remoteStatements = NoStatements
    /\ executions = <<>>

NextRows ==
    \/ \E options \in RowsOptions : history.lookups = 0 /\ doLookup(<<<<"7">>>>, options)
    \/ \E i \in DOMAIN tasks : TaskStartReturn(i, "started")
    \/ \E i \in DOMAIN tasks : TaskSleepDone(i)
    \/ \E i \in DOMAIN tasks, answer \in RowsStatusAnswers : TaskStatusReturn(i, answer)
    \/ \E i \in DOMAIN tasks, answer \in RowsResultsAnswers : TaskResultsReturn(i, answer)
    \/ \E id \in DOMAIN executions :
          lookup.pc # "idle" /\ onMessage("CHECK_QUERY_STATUS", id, lookup.options)
    \/ \E answer \in RowsStatusAnswers : MessageStatusReturn(answer)
    \/ \E answer \in RowsResultsAnswers : MessageResultsReturn(answer)

SpecRows == InitRows /\ [][NextRows]_vars

(***************************************************************************)
(* The formatting of one query: one doLookup call with one entity and a    *)
(* template without placeholder under either build; the result table and   *)
(* the summary and detail options are drawn from the sets below            *)
(***************************************************************************)
\* no summary attribute, "a", and "a,b"
FormatSummaryOptions == {UndefinedStr, <<"a">>, <<"a", ",", "b">>}
\* no detail attribute, null, a blank text, "a", and "b,a"
FormatDetailOptions == {UndefinedStr, NullStr, <<" ">>, <<"a">>, <<"b", ",", "a">>}

FormatOptions ==
    {[Options("us-east-1", QueryRaw, summaryAttributes, detailAttributes)
         EXCEPT !.maxSummaryDocuments = maxSummaryDocuments] :
        summaryAttributes \in FormatSummaryOptions,
        detailAttributes \in FormatDetailOptions,
        maxSummaryDocuments \in RowsMaxSummaryDocuments}

FormatStatusAnswers == {StatusAnswer("SUCCEEDED", UndefinedStr, rows) : rows \in SparseRowSets}
FormatResultsAnswers == {[error |-> FALSE, rows |-> rows] : rows \in SparseRowSets}

InitFormat ==
    /\ impl \in Builds
    /\ InitModule
    /\ remoteStatements = NoStatements
    /\ executions = <<>>

NextFormat ==
    \/ \E options \in FormatOptions : history.lookups = 0 /\ doLookup(<<<<"7">>>>, options)
    \/ \E options \in FormatOptions :
          history.lookups = 0 /\ doLookupOfIntegration(<<<<"7">>>>, options, TRUE)
    \/ \E c \in DOMAIN ensureCalls : EnsureGetReturn(c, "notFound")
    \/ \E c \in DOMAIN ensureCalls : EnsureWriteReturn(c, TRUE)
    \/ \E i \in DOMAIN tasks : TaskStartReturn(i, "started")
    \/ \E i \in DOMAIN tasks : TaskSleepDone(i)
    \/ \E i \in DOMAIN tasks, answer \in FormatStatusAnswers : TaskStatusReturn(i, answer)
    \/ \E i \in DOMAIN tasks, answer \in FormatResultsAnswers : TaskResultsReturn(i, answer)

SpecFormat == InitFormat /\ [][NextFormat]_vars

(***************************************************************************)
(* Resumptions of part_001 in a process that may or may not have run       *)
(* doLookup before: two executions of an earlier process exist, one in     *)
(* each region; the region and the attribute options vary from call to     *)
(* call.  The calls of the host come one after the other: a doLookup       *)
(* begins only while no resumption awaits a remote answer, and the tasks   *)
(* of an earlier doLookup go on while a resumption runs                    *)
(***************************************************************************)
ResumeOptions ==
    {Options(region, QueryRaw, attributes, attributes) :
        region \in Regions, attributes \in {UndefinedStr, <<"a">>}}

ResumeRows == <<HeaderRow, RowX>>

ResumeStatusAnswers ==
    {StatusError,
     StatusAnswer("RUNNING", UndefinedStr, <<>>),
     StatusAnswer("SUCCEEDED", UndefinedStr, ResumeRows),
     StatusAnswer("FAILED", <<"o", "o", "m">>, <<>>)}

ResumeResultsAnswers == {ResultsError, [error |-> FALSE, rows |-> ResumeRows]}

EarlierExecutions ==
    <<NewExecution("us-east-1", [kind |-> "raw", text |-> QueryRaw]),
      NewExecution("eu-west-1", [kind |-> "raw", text |-> QueryRaw])>>

InitResume ==
    /\ impl = "part_001"
    /\ InitModule
    /\ remoteStatements = NoStatements
    /\ executions = EarlierExecutions

NextResume ==
    \/ \E options \in ResumeOptions :
          /\ history.lookups < MaxLookups
          /\ message.pc \in {"idle", "done"}
          /\ doLookup(<<<<"7">>>>, options)
    \/ \E i \in DOMAIN tasks : TaskStartReturn(i, "started")
    \/ \E i \in DOMAIN tasks : TaskSleepDone(i)
    \/ \E i \in DOMAIN tasks :
          TaskStatusReturn(i, StatusAnswer("SUCCEEDED", UndefinedStr, ResumeRows))
    \/ \E i \in DOMAIN tasks : TaskResultsReturn(i, [error |-> FALSE, rows |-> ResumeRows])
    \/ \E id \in DOMAIN EarlierExecutions, options \in ResumeOptions :
          onMessage("CHECK_QUERY_STATUS", id, options)
    \/ \E answer \in ResumeStatusAnswers : MessageStatusReturn(answer)
    \/ \E answer \in ResumeResultsAnswers : MessageResultsReturn(answer)

SpecResume == InitResume /\ [][NextResume]_vars

(***************************************************************************)
(* setCachedDisplayAttributes over a run of calls whose three attribute    *)
(* options vary from call to call; history.parsed holds the options the    *)
(* last call handed to processAttributeOption                              *)
(***************************************************************************)
CacheStrings == {UndefinedStr, NullStr, <<" ">>, <<"a">>, <<"a", ",", "b">>, <<"l", ":", "a">>}

CacheOptions ==
    {[Options("us-east-1", QueryRaw, summaryAttributes, detailAttributes)
        EXCEPT !.documentTitleAttribute = documentTitleAttribute] :
        summaryAttributes \in CacheStrings,
        detailAttributes \in {UndefinedStr, <<"a">>, <<"a", ",", "b">>},
        documentTitleAttribute \in {UndefinedStr, <<" ">>, <<"a">>}}

CompileCall(options) ==
    /\ attributeCache' = setCachedDisplayAttributes(options, attributeCache)
    /\ history' = [history EXCEPT !.parsed = ParsedOptions(options, attributeCache)]
    /\ UNCHANGED <<component, impl, originalOptions, athenaClient, currentPreparedStatement, currentQuery,
                   remoteStatements, executions, lookup, ensureCalls, tasks, message>>

InitCache ==
    /\ impl = "part_001"
    /\ originalOptions = NullObj
    /\ athenaClient = NullObj
    /\ currentPreparedStatement = NULL
    /\ currentQuery = NullStr
    /\ attributeCache = NoAttributeCache
    /\ lookup = IdleLookup
    /\ ensureCalls = [c \in {0} |-> NoEnsure]
    /\ tasks = <<>>
    /\ message = IdleMessage
    /\ history = [lookups |-> 0, resumes |-> 0, writes |-> 0, templates |-> {}, parsed |-> {}]
    /\ component = NewComponent
    /\ remoteStatements = NoStatements
    /\ executions = <<>>

NextCache == \E options \in CacheOptions : CompileCall(options)

SpecCache == InitCache /\ [][NextCache]_vars

(***************************************************************************)
(* The paging component of the details block: the list of results of one   *)
(* block, the filter the viewer types and the four paging actions          *)
(***************************************************************************)
pageSize == 5
MaxPagingData == 11

\* Math.ceil(a / b) for a >= 0, b > 0
Ceil(a, b) == (a + b - 1) \div b

\* Array.prototype.slice(start, end)
SliceIndex(s, k) == IF k < 0 THEN Max({Len(s) + k, 0}) ELSE Min(k, Len(s))

slice(s, start, end) ==
    IF SliceIndex(s, start) >= SliceIndex(s, end) THEN <<>>
    ELSE SubSeq(s, SliceIndex(s, start) + 1, SliceIndex(s, end))

Matches(entry, filterValue) == IndexOfText(entry.resultAsString, filterValue, 1) > 0

filteredPagingData(c) ==
    IF c.filterValue # <<>> /\ trim(toLowerCase(c.filterValue)) # <<>>
    THEN SelectSeq(c.pagingData, LAMBDA entry : Matches(entry, trim(toLowerCase(c.filterValue))))
    ELSE c.pagingData

totalPages(c) == Ceil(Len(filteredPagingData(c)), pageSize)

startIndex(c) == (c.currentPage - 1) * pageSize

pagedFilteredData(c) ==
    slice(filteredPagingData(c), startIndex(c), startIndex(c) + pageSize)

\* the results of a block: n entries, the first m of them with the text "ax",
\* the others with "bx"
PagingData(n, m) ==
    [k \in 1..n |-> [resultAsString |-> IF k <= m THEN <<"a", "x">> ELSE <<"b", "x">>]]

PagingDataSets == {PagingData(n, m) : n \in 0..MaxPagingData, m \in {0, 1, 6}}

FilterValues == {<<>>, <<" ">>, <<"a">>, <<" ", "B">>, <<"x">>, <<"z">>}

ComponentStep(c) ==
    /\ component' = c
    /\ UNCHANGED <<impl, originalOptions, athenaClient, currentPreparedStatement, currentQuery,
                   attributeCache, remoteStatements, executions, lookup, ensureCalls, tasks,
                   message, history>>

\* the viewer changes the filter: filteredPagingData is computed again and
\* sets currentPage to 1
filterValueChanged(value) ==
    /\ value # component.filterValue
    /\ ComponentStep([component EXCEPT !.filterValue = value, !.currentPage = 1])

prevPage ==
    ComponentStep(IF component.currentPage > 1
                  THEN [component EXCEPT !.currentPage = @ - 1]
                  ELSE component)

nextPage ==
    ComponentStep(IF component.currentPage < totalPages(component)
                  THEN [component EXCEPT !.currentPage = @ + 1]
                  ELSE component)

firstPage == ComponentStep([component EXCEPT !.currentPage = 1])

lastPage == ComponentStep([component EXCEPT !.currentPage = totalPages(component)])

InitPage ==
    /\ impl = "part_001"
    /\ InitModule
    /\ remoteStatements = NoStatements
    /\ executions = <<>>

\* a block is bound to the component
BlockBound(pagingData) ==
    /\ component = NewComponent
    /\ pagingData # <<>>
    /\ ComponentStep([component EXCEPT !.pagingData = pagingData])

NextPage ==
    \/ \E pagingData \in PagingDataSets : BlockBound(pagingData)
    \/ \E value \in FilterValues : filterValueChanged(value)
    \/ prevPage
    \/ nextPage
    \/ firstPage
    \/ lastPage

SpecPage == InitPage /\ [][NextPage]_vars

(***************************************************************************)
(* Properties                                                              *)
(***************************************************************************)
\* the task stopped polling because its budget was used up
IsSuspended(t) ==
    t.pc = "resolved" /\ t.attempts = Budget /\ t.queryStatus \in PendingStates

\* C1: under either build and whatever the remote service answers, a call of
\* executeAthenaQuery sends at most Budget status checks (10 in part_001, 15 in
\* integration.js) and sleeps exactly once before each of them, hence at most
\* Budget times; when the last allowed check still finds QUEUED or RUNNING it
\* returns complete = false with the id StartQueryExecution gave for its
\* query, and fetches no results.
C1BoundedPolling ==
    \A i \in DOMAIN tasks :
        /\ tasks[i].calls.status <= Budget
        /\ tasks[i].calls.sleep <= Budget
        /\ tasks[i].calls.sleep
             = tasks[i].calls.status + (IF tasks[i].pc = "sleep" THEN 1 ELSE 0)
        /\ (tasks[i].attempts = Budget /\ tasks[i].queryStatus \in PendingStates)
             => /\ tasks[i].pc = "resolved"
                /\ tasks[i].queryResult.complete = FALSE
                /\ tasks[i].queryResult.queryExecutionId = tasks[i].startedId
                /\ tasks[i].startedId \in DOMAIN executions
                /\ executions[tasks[i].startedId].query = tasks[i].queryParams.QueryString
                /\ tasks[i].calls.results = 0

\* integration.js has used its whole budget of 15 checks and has stopped
C1Witness ==
    \E i \in DOMAIN tasks :
        /\ impl = "integration"
        /\ IsSuspended(tasks[i])
        /\ tasks[i].calls.status = maxAttempts
        /\ tasks[i].calls.sleep = maxAttempts
        /\ tasks[i].queryResult.complete = FALSE

\* C2: in part_001, when every entity task of a doLookup call has settled and
\* none has failed, cb has been called once with a null error, and every
\* entity whose query was still QUEUED or RUNNING when the budget ran out has
\* data with the summary 'Query Running' whose details carry complete = false
\* and the id of its execution.
C2SuspendedIsNotAnError ==
    (/\ impl = "part_001"
     /\ lookup.pc = "done"
     /\ \A i \in DOMAIN tasks : tasks[i].pc = "resolved")
    => /\ lookup.cb.calls = 1
       /\ ~lookup.cb.isError
       /\ lookup.cb.err = NullObj
       /\ \A i \in DOMAIN tasks :
            IsSuspended(tasks[i])
            => /\ lookup.cb.results[i].data # NoData
               /\ lookup.cb.results[i].data.summary = <<QueryRunningTag>>
               /\ lookup.cb.results[i].data.details.complete = FALSE
               /\ lookup.cb.results[i].data.details.queryExecutionId = tasks[i].startedId
               /\ tasks[i].startedId \in DOMAIN executions

\* one entity is suspended, the other has its rows, and cb has the list
C2Witness ==
    /\ impl = "part_001"
    /\ lookup.pc = "done"
    /\ Len(tasks) = 2
    /\ IsSuspended(tasks[1])
    /\ tasks[2].pc = "resolved"
    /\ tasks[2].queryResult.complete
    /\ lookup.cb.calls = 1
    /\ ~lookup.cb.isError
    /\ lookup.cb.results[1].data.details.complete = FALSE

\* a CHECK_QUERY_STATUS message with an execution id is being handled or has
\* been answered
Resuming ==
    /\ message.action = "CHECK_QUERY_STATUS"
    /\ message.queryExecutionId # 0
    /\ message.pc \in {"status", "results", "done"}

\* C3: a CHECK_QUERY_STATUS message for an execution id sends exactly one
\* GetQueryExecution, and no step of its handling starts an execution or
\* touches the prepared statement or a call of ensurePreparedStatement, however
\* often the id is resumed.
C3ResumeChecksOnce ==
    /\ [](Resuming => message.calls.status = 1)
    /\ [][message' # message
            => /\ Len(executions') = Len(executions)
               /\ \A id \in DOMAIN executions : executions'[id].query = executions[id].query
               /\ remoteStatements' = remoteStatements
               /\ ensureCalls' = ensureCalls
               /\ currentPreparedStatement' = currentPreparedStatement
               /\ tasks' = tasks]_vars

\* the same id has been resumed twice and the second resumption has its answer
C3Witness ==
    /\ history.resumes = 2
    /\ Resuming
    /\ message.pc = "done"
    /\ ~message.cb.isError
    /\ message.calls.status = 1
    /\ Len(executions) = 1

\* the resumption has answered, without an error, for the execution of entity
\* task i, under the options of the lookup and on the remote state the task
\* saw last
SameObservation(i) ==
    /\ tasks[i].pc = "resolved"
    /\ message.pc = "done"
    /\ message.action = "CHECK_QUERY_STATUS"
    /\ ~message.cb.isError
    /\ message.queryExecutionId = tasks[i].startedId
    /\ message.options = lookup.options
    /\ message.statusResult = tasks[i].statusResult

\* C4: when onMessage(CHECK_QUERY_STATUS) answers for an execution in the
\* remote state in which the poll loop of doLookup saw it last, under the same
\* options, the data it hands to cb equal the data doLookup returned for the
\* entity.
C4SameRendering ==
    \A i \in DOMAIN tasks :
        SameObservation(i) => message.cb.data = tasks[i].value.data

\* the statusResult a status check left behind
Observation(statusResult) == statusResult # NoStatusResult

\* the text an error carries is the StateChangeReason of the observation
CarriesReason(error, statusResult) ==
    \E k \in DOMAIN error.args : error.args[k] = statusResult.StateChangeReason

\* C5: once a status check has observed FAILED or CANCELLED with a
\* StateChangeReason, the poll loop and the resume path both end with an error
\* whose message carries that reason, and neither sends GetQueryResults.
C5FailureCarriesReason ==
    /\ \A i \in DOMAIN tasks :
         (/\ Observation(tasks[i].statusResult)
          /\ tasks[i].statusResult.State \in FailedStates
          /\ tasks[i].statusResult.StateChangeReason # UndefinedStr)
         => /\ tasks[i].pc = "rejected"
            /\ CarriesReason(tasks[i].error, tasks[i].statusResult)
            /\ tasks[i].calls.results = 0
    /\ (/\ Observation(message.statusResult)
        /\ message.statusResult.State \in FailedStates
        /\ message.statusResult.StateChangeReason # UndefinedStr)
       => /\ message.pc = "done"
          /\ message.cb.isError
          /\ CarriesReason(message.cb.err.message, message.statusResult)
          /\ message.calls.results = 0

\* C6: once a status check has observed a state outside QUEUED, RUNNING,
\* SUCCEEDED, FAILED and CANCELLED, the poll loop and the resume path both end
\* with an error; GetQueryResults is sent only after SUCCEEDED was observed.
C6UnknownStateIsFatal ==
    /\ \A i \in DOMAIN tasks :
         /\ (Observation(tasks[i].statusResult)
             /\ tasks[i].statusResult.State \notin KnownStates)
            => (tasks[i].pc = "rejected" /\ tasks[i].calls.results = 0)
         /\ tasks[i].calls.results > 0
            => (Observation(tasks[i].statusResult)
                /\ tasks[i].statusResult.State = "SUCCEEDED")
    /\ (Observation(message.statusResult)
        /\ message.statusResult.State \notin KnownStates)
       => (message.pc = "done" /\ message.cb.isError /\ message.calls.results = 0)
    /\ message.calls.results > 0
       => (Observation(message.statusResult) /\ message.statusResult.State = "SUCCEEDED")

\* C7: under either build, as soon as an entity task of a doLookup call has
\* failed, cb has been called once, with an error and without a result list,
\* whatever became of the other entities.
C7OneFailureFailsAll ==
    (\E i \in DOMAIN tasks : tasks[i].pc = "rejected")
    => /\ lookup.cb.calls = 1
       /\ lookup.cb.isError
       /\ lookup.cb.err # NullObj
       /\ lookup.cb.results = <<>>

\* the first entity has its rows and the second failed at a remote call
C7Witness ==
    /\ Len(tasks) = 2
    /\ tasks[1].pc = "resolved"
    /\ tasks[1].queryResult.complete
    /\ tasks[2].pc = "rejected"
    /\ tasks[2].calls.status > 0
    /\ lookup.settled = <<1, 2>>
    /\ lookup.cb.isError

\* C8: when doLookup hands a result list to cb, the list has one element per
\* input entity and element i is the outcome of input entity i, in whatever
\* order the entity tasks settled.
C8ResultsInInputOrder ==
    (lookup.cb.calls = 1 /\ ~lookup.cb.isError)
    => /\ Len(lookup.cb.results) = Len(lookup.entities)
       /\ \A i \in DOMAIN lookup.entities :
            /\ lookup.cb.results[i].entity = lookup.entities[i]
            /\ lookup.cb.results[i] = tasks[i].value

\* two different entities; the second settled first, with its rows, and the
\* first was suspended
C8Witness ==
    /\ lookup.cb.calls = 1
    /\ ~lookup.cb.isError
    /\ Len(lookup.entities) = 2
    /\ lookup.entities[1] # lookup.entities[2]
    /\ lookup.settled = <<2, 1>>
    /\ IsSuspended(tasks[1])
    /\ tasks[2].queryResult.complete

\* C9: over a run of doLookup calls that all have the same canonical template
\* text, at most one CreatePreparedStatement or UpdatePreparedStatement is sent
\* in total.
C9OneWritePerTemplate ==
    Cardinality(history.templates) <= 1 => history.writes <= 1

\* the call of ensurePreparedStatement has gone past its existence check
Checked(call) == call.gets = 1 /\ call.pc \in {"write", "returned", "threw"}

WithPlaceholder == lookup.pc # "idle" /\ includes(lookup.options.query, "?")

\* the calls of ensurePreparedStatement the doLookup call in hand has made
EnsureCallsMade == {c \in DOMAIN ensureCalls : ensureCalls[c].pc # "idle"}

\* C11: under either build, a doLookup call whose template has a placeholder
\* runs ensurePreparedStatement exactly once however many entities it has, and
\* that run has returned before StartQueryExecution is sent for any entity.
C11EnsuredOncePerInvocation ==
    WithPlaceholder
    => /\ Cardinality(EnsureCallsMade) = 1
       /\ \A i \in DOMAIN tasks :
            tasks[i].calls.start > 0
            => \A c \in EnsureCallsMade : ensureCalls[c].pc = "returned"

\* C12: in part_001, after any run of doLookup and onMessage calls, a doLookup
\* call that has gone past ensurePreparedStatement without a remote call holds
\* a statement cache that was filled under its own connection: the statement
\* exists in the region of its options with the cached text.
C12CacheFollowsConnection ==
    (/\ impl = "part_001"
     /\ WithPlaceholder
     /\ lookup.pc \in {"tasks", "done"}
     /\ ensureCalls[0].pc = "returned"
     /\ ensureCalls[0].gets = 0)
    => /\ currentPreparedStatement = statementName
       /\ remoteStatements[lookup.options.region] = currentQuery

\* the message in hand was rejected by onMessage itself with this payload
Rejected(text) ==
    /\ message.pc = "done"
    /\ message.cb.calls = 1
    /\ message.cb.isError
    /\ message.cb.err = [error |-> text]
    /\ message.calls = NoMessageCalls

\* C13: onMessage sends a CHECK_QUERY_STATUS message with an execution id to
\* the resume path; a message with another action is rejected through cb with
\* the 'Unknown action' payload, a CHECK_QUERY_STATUS message without an
\* execution id with the 'Missing queryExecutionId' payload; a rejected message
\* causes no remote call and leaves the client, the caches and the remote
\* service as they were.
C13MessageRouting ==
    /\ [](message.pc # "idle"
          => /\ message.action # "CHECK_QUERY_STATUS" => Rejected("Unknown action: %s")
             /\ (message.action = "CHECK_QUERY_STATUS" /\ message.queryExecutionId = 0)
                => Rejected("Missing queryExecutionId in message")
             /\ (message.action = "CHECK_QUERY_STATUS" /\ message.queryExecutionId # 0)
                => (message.calls.status = 1 /\ ~Rejected("Unknown action: %s")))
    /\ [][(message' # message
            /\ (message'.action # "CHECK_QUERY_STATUS" \/ message'.queryExecutionId = 0))
            => /\ athenaClient' = athenaClient
               /\ originalOptions' = originalOptions
               /\ attributeCache' = attributeCache
               /\ currentPreparedStatement' = currentPreparedStatement
               /\ currentQuery' = currentQuery
               /\ executions' = executions
               /\ remoteStatements' = remoteStatements]_vars

\* after a lookup, a message with another action has been rejected
C13Witness ==
    /\ history.lookups = 1
    /\ athenaClient # NullObj
    /\ message.action = "OTHER"
    /\ message.queryExecutionId # 0
    /\ Rejected("Unknown action: %s")

\* the template has a placeholder of an integer type and the value holds no
\* digit at all
Uncoercible(entityValue) ==
    /\ lookup.hintsSet
    /\ \E h \in DOMAIN lookup.typeHints : lookup.typeHints[h].type \in IntegerTypes
    /\ \A k \in DOMAIN entityValue : entityValue[k] \notin Digits

\* C14: under either build, the task of an entity whose value cannot be
\* coerced to the type of a placeholder fails before submission: it sends no
\* StartQueryExecution, GetQueryExecution or GetQueryResults and sleeps for no
\* poll.
C14CoercionFailsBeforeSubmission ==
    \A i \in DOMAIN tasks :
        Uncoercible(tasks[i].entity)
        => /\ tasks[i].calls = NoCalls
           /\ tasks[i].startedId = 0
           /\ tasks[i].pc \in {"waiting", "ensure", "rejected"}
           /\ impl = "part_001" => tasks[i].pc = "rejected"

\* the first entity failed at the coercion while the second was submitted
C14Witness ==
    /\ Len(tasks) = 2
    /\ Uncoercible(tasks[1].entity)
    /\ tasks[1].pc = "rejected"
    /\ tasks[1].error.cause = "Cannot convert \"%s\" to integer type"
    /\ ~Uncoercible(tasks[2].entity)
    /\ tasks[2].calls.start = 1

\* the number of placeholders of a template
Placeholders(query) == Cardinality({k \in DOMAIN query : query[k] = "?"})

\* the query entity task i has submitted
Submitted(i) == tasks[i].queryParams.QueryString

\* C15: under either build, the query submitted for an entity under a
\* template with N placeholders is EXECUTE of the prepared statement USING
\* exactly N literals, and literal k is the binding of that entity's value
\* under the type hint of placeholder k of the template of the call.
C15BroadcastBinding ==
    \A i \in DOMAIN tasks :
        (tasks[i].calls.start = 1 /\ Placeholders(lookup.options.query) > 0)
        => /\ Submitted(i).kind = "EXECUTE"
           /\ Submitted(i).statement = statementName
           /\ Len(Submitted(i).using) = Placeholders(lookup.options.query)
           /\ Len(parseTypeHints(lookup.options.query).typeHints)
                = Placeholders(lookup.options.query)
           /\ \A k \in DOMAIN Submitted(i).using :
                Submitted(i).using[k]
                  = createParameterValue(
                        tasks[i].entity,
                        parseTypeHints(lookup.options.query).typeHints[k].type).value

\* the value 7 has been bound to both placeholders of "b??" as a string
C15Witness ==
    \E i \in DOMAIN tasks :
        /\ tasks[i].calls.start = 1
        /\ lookup.options.query = QueryTwo
        /\ Submitted(i).kind = "EXECUTE"
        /\ Submitted(i).using = <<<<"'", "7", "'">>, <<"'", "7", "'">>>>

\* the whole text is an optional sign and decimal digits
IsBase10Integer(v) ==
    Unsigned(v) # <<>> /\ \A k \in DOMAIN Unsigned(v) : Unsigned(v)[k] \in Digits

\* the text from position pos on is empty or a whole exponent part
IsExponentOrEnd(u, pos) ==
    \/ pos = Len(u) + 1
    \/ /\ HasE(u, pos)
       /\ DigitRunLen(u, IF HasESign(u, pos) THEN pos + 2 ELSE pos + 1) > 0
       /\ (IF HasESign(u, pos) THEN pos + 2 ELSE pos + 1)
            + DigitRunLen(u, IF HasESign(u, pos) THEN pos + 2 ELSE pos + 1) = Len(u) + 1

\* the whole text is a decimal number: an optional sign, digits with an
\* optional point among them, an optional exponent
IsNumberText(v) ==
    \E ni, nf \in 0..Len(v) :
        /\ ni + nf > 0
        /\ ni = DigitRunLen(Unsigned(v), 1)
        /\ \/ nf = 0 /\ IsExponentOrEnd(Unsigned(v), ni + 1)
           \/ /\ ni + 1 <= Len(Unsigned(v))
              /\ Unsigned(v)[ni + 1] = "."
              /\ nf = DigitRunLen(Unsigned(v), ni + 2)
              /\ IsExponentOrEnd(Unsigned(v), ni + nf + 2)

IsBooleanWord(v) ==
    toLowerCase(v) \in {<<"t","r","u","e">>, <<"1">>, <<"f","a","l","s","e">>, <<"0">>}

\* the value is one createParameterValue has to reject under the type tag
MustReject(v, tag) ==
    \/ toLowerCase(tag) \in IntegerTypes /\ ~IsBase10Integer(v)
    \/ toLowerCase(tag) \in DecimalTypes /\ ~IsNumberText(v)
    \/ toLowerCase(tag) \in BooleanTypes /\ ~IsBooleanWord(v)

\* entity task i has gone through createQuery and was not stopped there
Bound(i) == tasks[i].calls.start = 1

\* C16: createParameterValue returns no literal for a value it has to reject:
\* under an integer tag every value that is not a base-10 integer, under a
\* decimal tag every value that is not a number and under a boolean tag every
\* value outside true, 1, false, 0 stops the task before it submits a query.
C16RejectsWhatItShould ==
    \A i \in DOMAIN tasks :
        (\E k \in DOMAIN lookup.typeHints :
            MustReject(tasks[i].entity, lookup.typeHints[k].type))
        => ~Bound(i)

\* what one character of the value becomes inside a string literal
EscapedChar(c) ==
    IF c \in {"\n", "\r"} THEN <<>>
    ELSE IF c = "\\" THEN <<"\\", "\\">>
    ELSE IF c = "'" THEN <<"\\", "'">>
    ELSE <<c>>

\* the number of backslashes that stand directly before position p
RECURSIVE BackslashesBefore(_, _)
BackslashesBefore(s, p) ==
    IF p <= 1 \/ s[p - 1] # "\\" THEN 0 ELSE 1 + BackslashesBefore(s, p - 1)

\* the text between the quotes of a string literal
Inner(literal) == SubSeq(literal, 2, Len(literal) - 1)

StringTags == {StringType, <<"v","a","r","c","h","a","r">>, <<"c","h","a","r">>}

\* C17: the literal bound under a string, varchar or char tag (or no tag) is
\* the value between single quotes, with its line breaks removed, each
\* backslash doubled and each single quote preceded by a backslash; inside the
\* quotes there is no line break and no single quote that an odd number of
\* backslashes does not precede.
C17StringLiteral ==
    \A i \in DOMAIN tasks :
        Bound(i)
        => \A k \in DOMAIN lookup.typeHints :
              toLowerCase(lookup.typeHints[k].type) \in StringTags
              => /\ Submitted(i).using[k]
                      = <<"'">>
                        \o Concat([p \in DOMAIN tasks[i].entity |->
                                      EscapedChar(tasks[i].entity[p])])
                        \o <<"'">>
                 /\ \A p \in DOMAIN Inner(Submitted(i).using[k]) :
                      /\ Inner(Submitted(i).using[k])[p] \notin {"\n", "\r"}
                      /\ Inner(Submitted(i).using[k])[p] = "'"
                           => BackslashesBefore(Inner(Submitted(i).using[k]), p) % 2 = 1

\* the value \\'<LF> (two backslashes, a quote, a line feed) has been bound
\* under a varchar tag
C17Witness ==
    \E i \in DOMAIN tasks :
        /\ Bound(i)
        /\ tasks[i].entity = <<"\\", "\\", "'", "\n">>
        /\ lookup.typeHints = <<[index |-> 0, type |-> <<"v","a","r","c","h","a","r">>]>>
        /\ Submitted(i).using = <<<<"'", "\\", "\\", "\\", "\\", "\\", "'", "'">>>>

\* the position of placeholder k of a template, counted from 1
MarkAt(query, k) ==
    CHOOSE p \in DOMAIN query :
        query[p] = "?" /\ Cardinality({r \in 1..p : query[r] = "?"}) = k

\* the positions of the colon and the identifier written after the
\* placeholder at position p, if any
TagRange(query, p) ==
    IF p + 1 <= Len(query) /\ query[p + 1] = ":" /\ WordRunLen(query, p + 2) > 0
    THEN (p + 1)..(p + 1 + WordRunLen(query, p + 2))
    ELSE {}

TagWritten(query, p) ==
    IF TagRange(query, p) = {} THEN StringType
    ELSE SubSeq(query, p + 2, p + 1 + WordRunLen(query, p + 2))

\* the positions of a template that belong to no tag
Kept(query) ==
    {p \in DOMAIN query :
        \A m \in DOMAIN query : query[m] = "?" => p \notin TagRange(query, m)}

\* the template without its tags
Untagged(query) ==
    [j \in 1..Cardinality(Kept(query)) |->
        query[CHOOSE p \in Kept(query) : Cardinality({r \in Kept(query) : r <= p}) = j]]

\* C18: for the template of a call with K placeholders, parseTypeHints has
\* stored exactly K hints; hint k (from 0) has index k and the tag written
\* after placeholder k, or string when none is written; the canonical text
\* handed to the statement store is the template with every tag removed, so
\* that every placeholder is a bare question mark.
C18TypeHints ==
    (lookup.hintsSet /\ ensureCalls[0].pc # "idle")
    => /\ Len(lookup.typeHints) = Placeholders(lookup.options.query)
       /\ \A k \in DOMAIN lookup.typeHints :
            /\ lookup.typeHints[k].index = k - 1
            /\ lookup.typeHints[k].type
                 = TagWritten(lookup.options.query, MarkAt(lookup.options.query, k))
       /\ ensureCalls[0].processedQuery = Untagged(lookup.options.query)
       /\ Placeholders(ensureCalls[0].processedQuery) = Placeholders(lookup.options.query)

\* the template "??:B_9?" has been parsed into three hints and "???"
C18Witness ==
    /\ lookup.hintsSet
    /\ lookup.options.query = <<"?", "?", ":", "B", "_", "9", "?">>
    /\ lookup.typeHints = <<[index |-> 0, type |-> StringType],
                            [index |-> 1, type |-> <<"B", "_", "9">>],
                            [index |-> 2, type |-> StringType]>>
    /\ ensureCalls[0].processedQuery = <<"?", "?", "?">>

\* results holds one object per row after the first, in order
OnePerDataRow(results, rows) ==
    Len(results) = IF rows = <<>> THEN 0 ELSE Len(rows) - 1

\* every object maps the name in column c of the first row to cell c of its row
ZipsEveryColumn(results, rows) ==
    \A k \in DOMAIN results : \A c \in DOMAIN rows[1] :
        results[k][rows[1][c]] = rows[k + 1][c]

\* every object has the column names as its keys and maps a name to the cell
\* of the last column of that name
ZipsLastOfName(results, rows) ==
    \A k \in DOMAIN results :
        /\ DOMAIN results[k] = {rows[1][c] : c \in DOMAIN rows[1]}
        /\ \A c \in DOMAIN rows[1] :
              (\A d \in DOMAIN rows[1] : d > c => rows[1][d] # rows[1][c])
              => results[k][rows[1][c]] = rows[k + 1][c]

\* executeAthenaQuery of entity task i has returned the rows it fetched
TaskFetched(i) ==
    /\ tasks[i].calls.results = 1
    /\ tasks[i].pc = "resolved"
    /\ tasks[i].queryResult.complete

\* checkQueryStatusAndGetResults has returned the rows it fetched
MessageFetched ==
    /\ message.calls.results = 1
    /\ message.pc = "done"
    /\ ~message.cb.isError

\* C19 as stated: the materialized result set has one row object per row
\* after the header, in order, and the object maps the name in every column
\* of the header to the cell of that column.
C19ZipsEveryHeader ==
    /\ \A i \in DOMAIN tasks :
          TaskFetched(i)
          => /\ OnePerDataRow(tasks[i].queryResult.results, ExecutionOf(i).rows)
             /\ ZipsEveryColumn(tasks[i].queryResult.results, ExecutionOf(i).rows)
    /\ MessageFetched
          => /\ OnePerDataRow(message.queryResult.results, ExecutionOfMessage.rows)
             /\ ZipsEveryColumn(message.queryResult.results, ExecutionOfMessage.rows)

\* C19: on either path the materialized result set has one row object per
\* row after the header, in order; the keys of the object are the column
\* names and a name maps to the cell of the last column that bears it, which
\* is the cell of its own column when the names are distinct.  A result set of
\* the header alone or of no row at all gives the empty sequence and no error.
C19Materialized ==
    /\ \A i \in DOMAIN tasks :
          /\ TaskFetched(i)
                => /\ OnePerDataRow(tasks[i].queryResult.results, ExecutionOf(i).rows)
                   /\ ZipsLastOfName(tasks[i].queryResult.results, ExecutionOf(i).rows)
          /\ (tasks[i].calls.results = 1 /\ tasks[i].pc # "results"
              /\ Len(ExecutionOf(i).rows) <= 1)
                => TaskFetched(i) /\ tasks[i].queryResult.results = <<>>
    /\ MessageFetched
          => /\ OnePerDataRow(message.queryResult.results, ExecutionOfMessage.rows)
             /\ ZipsLastOfName(message.queryResult.results, ExecutionOfMessage.rows)
    /\ (message.calls.results = 1 /\ message.pc = "done"
        /\ Len(ExecutionOfMessage.rows) <= 1)
          => MessageFetched /\ message.queryResult.results = <<>>

\* a table of columns a and b with two data rows has been materialized by the
\* entity task, and the same table by a resumption
C19Witness ==
    /\ Len(tasks) = 1
    /\ TaskFetched(1)
    /\ ExecutionOf(1).rows = <<<<<<"a">>, <<"b">>>>, <<<<"x">>, <<"y">>>>, <<<<"y">>, <<"x">>>>>>
    /\ tasks[1].queryResult.results
         = <<(<<"a">> :> <<"x">>) @@ (<<"b">> :> <<"y">>),
             (<<"a">> :> <<"y">>) @@ (<<"b">> :> <<"x">>)>>
    /\ MessageFetched
    /\ message.queryResult.results = tasks[1].queryResult.results

\* the three results {a: x}, {a: x}, {a: y}
ThreeResults == <<HeaderRow, RowX, RowX, RowY>>

\* the summary attribute option is the path a: bare, labelled L, or with an
\* empty label
SummaryOfA(options) ==
    options.summaryAttributes \in {<<"a">>, <<"L", ":", "a">>, <<":", "a">>}

\* the label of that option: the text before the colon, and the path itself
\* when there is no colon
LabelOfA(options) ==
    IF options.summaryAttributes = <<"a">> THEN <<"a">>
    ELSE IF options.summaryAttributes = <<":", "a">> THEN <<>>
    ELSE <<"L">>

\* the tags of the values of a in the first results, up to maxSummaryDocuments
\* of them, each as "<label>: <value>", or as the value when the label is empty
LabelledValues(results, options) ==
    [k \in 1..Min(options.maxSummaryDocuments, Len(results)) |->
        (IF LabelOfA(options) = <<>> THEN <<>> ELSE LabelOfA(options) \o <<":", " ">>)
        \o results[k][<<"a">>]]

\* what getSummaryTags has to return for results that all have a value of a
ExpectedTags(results, options) ==
    Dedupe(LabelledValues(results, options))
    \o (IF Len(results) > options.maxSummaryDocuments THEN <<CountTag(Len(results))>>
        ELSE <<>>)

\* the entity task has formatted results that are not empty
TaskSummarized(i) == TaskFetched(i) /\ tasks[i].queryResult.results # <<>>

\* the resumption has formatted results that are not empty
MessageSummarized == MessageFetched /\ message.queryResult.results # <<>>

HasData(i) == tasks[i].pc = "resolved" /\ tasks[i].value.data # NoData

\* the summary tags of entity task i
SummaryOf(i) == tasks[i].value.data.summary

\* C21: under either build the tag list getSummaryTags returns for an entity
\* holds no string twice.
C21NoDuplicateTags ==
    \A i \in DOMAIN tasks :
        HasData(i)
        => \A p, q \in DOMAIN SummaryOf(i) : p # q => SummaryOf(i)[p] # SummaryOf(i)[q]

\* the paths of the summary attribute option of a call, in their order
SummaryPaths(options) ==
    IF options.summaryAttributes = UndefinedStr THEN <<>>
    ELSE split(options.summaryAttributes, ",")

\* the tag of one result under one path: none when the result has no value
\* or an empty one there, else "<path>: <value>"
TagOf(result, path) ==
    IF path \notin DOMAIN result \/ result[path] = <<>> THEN <<>>
    ELSE <<path \o <<":", " ">> \o result[path]>>

\* the tags of the first maxSummaryDocuments results: path after path, and
\* result after result under each path
ScannedTags(results, options) ==
    Concat([j \in DOMAIN SummaryPaths(options) |->
              Concat([k \in 1..Min(options.maxSummaryDocuments, Len(results)) |->
                        TagOf(results[k], SummaryPaths(options)[j])])])

\* no attribute tag was produced, or there are more results than
\* maxSummaryDocuments
CountTagDue(results, options) ==
    ScannedTags(results, options) = <<>> \/ Len(results) > options.maxSummaryDocuments

\* "<N> results", "1 result"
CountText(n) ==
    IntToString(n) \o <<" ", "r", "e", "s", "u", "l", "t">>
    \o (IF n = 1 THEN <<>> ELSE <<"s">>)

\* C22: under either build the tags of an entity are those of the first
\* maxSummaryDocuments results in document order and of no later result (each
\* once under part_001), followed by the count tag "<N> result(s)" of all N
\* results exactly when no attribute tag was produced or N exceeds
\* maxSummaryDocuments; the list ends with the count tag in that case only.
C22CountTagRule ==
    \A i \in DOMAIN tasks :
        HasData(i)
        => /\ SummaryOf(i)
                = (IF impl = "part_001"
                   THEN Dedupe(ScannedTags(tasks[i].queryResult.results, lookup.options))
                   ELSE ScannedTags(tasks[i].queryResult.results, lookup.options))
                  \o (IF CountTagDue(tasks[i].queryResult.results, lookup.options)
                      THEN <<CountText(Len(tasks[i].queryResult.results))>> ELSE <<>>)
           /\ SummaryOf(i)[Len(SummaryOf(i))] = CountText(Len(tasks[i].queryResult.results))
                <=> CountTagDue(tasks[i].queryResult.results, lookup.options)

\* three results were summarized under "a" with maxSummaryDocuments 1: the
\* tag of the first result, then the count tag; the value of the third result
\* is not among the tags
C22Witness ==
    \E i \in DOMAIN tasks :
        /\ HasData(i)
        /\ lookup.options.summaryAttributes = <<"a">>
        /\ lookup.options.maxSummaryDocuments = 1
        /\ ExecutionOf(i).rows = <<<<<<"a">>, <<"b">>>>, <<<<"x">>, <<"y">>>>,
                                   <<EmptyCell, EmptyCell>>, <<<<"x">>, <<"x">>>>>>
        /\ SummaryOf(i) = <<<<"a", ":", " ", "x">>,
                            <<"3", " ", "r", "e", "s", "u", "l", "t", "s">>>>

\* the detail attribute option is absent, not a text, or blank
NoDetailSpec(options) ==
    \/ options.detailAttributes \in {UndefinedStr, NullStr}
    \/ \A k \in DOMAIN options.detailAttributes : options.detailAttributes[k] \in WhiteSpace

\* the details of entity task i
DetailsOfTask(i) == tasks[i].value.data.details

\* C23: under either build, with no detail attribute option (absent, not a
\* text, or blank) and a result list that is not empty, getDetails returns
\* showAsJson true and the list of row objects as executeAthenaQuery
\* materialized it: the same rows in the same order.
C23JsonViewUntouched ==
    \A i \in DOMAIN tasks :
        (HasData(i) /\ NoDetailSpec(lookup.options))
        => /\ DetailsOfTask(i).showAsJson
           /\ DetailsOfTask(i).results = tasks[i].queryResult.results
           /\ DetailsOfTask(i).results = MaterializeRows(ExecutionOf(i).rows)
           /\ Len(DetailsOfTask(i).results) = Len(ExecutionOf(i).rows) - 1

\* two rows were returned under a blank detail attribute option
C23Witness ==
    \E i \in DOMAIN tasks :
        /\ HasData(i)
        /\ lookup.options.detailAttributes = <<" ">>
        /\ DetailsOfTask(i).showAsJson
        /\ DetailsOfTask(i).results = <<(<<"a">> :> <<"x">>), (<<"a">> :> EmptyCell)>>

\* the paths of the detail attribute option of a call, in their order
DetailPaths(options) == split(options.detailAttributes, ",")

\* the attributes of one result: for each path in the order of the option, the
\* path and the value, unless the value is missing or empty
AttributesOf(result, options) ==
    Concat([j \in DOMAIN DetailPaths(options) |->
              IF DetailPaths(options)[j] \notin DOMAIN result
                 \/ result[DetailPaths(options)[j]] = <<>>
              THEN <<>>
              ELSE <<[key |-> DetailPaths(options)[j],
                      value |-> result[DetailPaths(options)[j]]]>>])

\* the attribute lists of the results that have at least one, in row order
DocumentsOf(results, options) ==
    Concat([k \in DOMAIN results |->
              IF AttributesOf(results[k], options) = <<>> THEN <<>>
              ELSE <<AttributesOf(results[k], options)>>])

\* C24: under either build, with a detail attribute option configured, the
\* detail documents are those of the results that have at least one attribute
\* with a value, in row order; each document holds, in the order of the
\* option, exactly the attributes whose value is neither missing nor empty;
\* no document has an empty attribute list.
C24DetailDocuments ==
    \A i \in DOMAIN tasks :
        (HasData(i) /\ ~NoDetailSpec(lookup.options))
        => /\ ~DetailsOfTask(i).showAsJson
           /\ [d \in DOMAIN DetailsOfTask(i).results |->
                  DetailsOfTask(i).results[d].attributes]
                = DocumentsOf(tasks[i].queryResult.results, lookup.options)
           /\ \A d \in DOMAIN DetailsOfTask(i).results :
                DetailsOfTask(i).results[d].attributes # <<>>

\* under "b,a" the rows (x, empty), (empty, empty), (x, y) gave two documents:
\* a of the first row, and b then a of the third
C24Witness ==
    \E i \in DOMAIN tasks :
        /\ HasData(i)
        /\ lookup.options.detailAttributes = <<"b", ",", "a">>
        /\ ExecutionOf(i).rows = <<<<<<"a">>, <<"b">>>>, <<<<"x">>, EmptyCell>>,
                                   <<EmptyCell, EmptyCell>>, <<<<"x">>, <<"y">>>>>>
        /\ Len(DetailsOfTask(i).results) = 2
        /\ DetailsOfTask(i).results[1].attributes = <<[key |-> <<"a">>, value |-> <<"x">>]>>
        /\ DetailsOfTask(i).results[2].attributes
             = <<[key |-> <<"b">>, value |-> <<"y">>], [key |-> <<"a">>, value |-> <<"x">>]>>

\* an error value of the flat shape: name, message and detail, and possibly
\* requestId and statusCode
IsFlatError(err) ==
    /\ {"name", "message", "detail"} \subseteq DOMAIN err
    /\ DOMAIN err \subseteq {"name", "message", "detail", "requestId", "statusCode"}

\* C25: every error value that doLookup or onMessage has passed to cb has the
\* flat shape, whatever the failure was.
C25FlatErrors ==
    /\ lookup.cb.isError => IsFlatError(lookup.cb.err)
    /\ message.cb.isError => IsFlatError(message.cb.err)

\* no GetPreparedStatement, CreatePreparedStatement or UpdatePreparedStatement
\* has been sent
NoStatementCall ==
    /\ \A c \in DOMAIN ensureCalls :
          ensureCalls[c].gets = 0 /\ ensureCalls[c].creates = 0 /\ ensureCalls[c].updates = 0
    /\ history.writes = 0

\* C26: under either build, a call whose template has no placeholder sends no
\* prepared-statement request and submits the template text itself for each
\* entity; a call whose template has a placeholder submits an EXECUTE of the
\* prepared statement.
C26RawOrExecute ==
    /\ (lookup.pc # "idle" /\ ~includes(lookup.options.query, "?")) => NoStatementCall
    /\ \A i \in DOMAIN tasks :
          Bound(i)
          => IF includes(lookup.options.query, "?")
             THEN /\ Submitted(i).kind = "EXECUTE"
                  /\ Submitted(i).statement = statementName
             ELSE /\ Submitted(i).kind = "raw"
                  /\ Submitted(i).text = lookup.options.query

\* the text a message carries after "Failed to start Athena query: "
StartFailureText(answer) ==
    IF StartError(answer).message # <<>> THEN StartError(answer).message
    ELSE <<StartError(answer).name>>

\* StartQueryExecution of entity task i was rejected
StartRejected(i) ==
    /\ tasks[i].calls.start = 1
    /\ tasks[i].startedId = 0
    /\ tasks[i].pc = "rejected"

\* C27: under either build, an entity task whose StartQueryExecution was
\* rejected has failed with a new Error of the name Error: "S3 output bucket
\* error" with the remote message and the bucket named in it (the text after
\* "bucket ", or unknown when none follows) when the rejection is an
\* InvalidRequestException whose message mentions the output bucket, and
\* "Failed to start Athena query" with the remote message (or the error name
\* when there is no message) otherwise; the task has slept for no poll and
\* sent no GetQueryExecution and no GetQueryResults.
C27StartRejection ==
    \A i \in DOMAIN tasks :
        StartRejected(i)
        => /\ tasks[i].calls = [NoCalls EXCEPT !.start = 1]
           /\ tasks[i].queryExecutionId = 0
           /\ tasks[i].error.name = "Error"
           /\ \E answer \in StartErrors :
                tasks[i].error
                  = IF answer \in {"InvalidRequestException: output bucket",
                                   "InvalidRequestException: no output bucket"}
                    THEN Error("S3 output bucket error: %s. Please ensure the bucket '%s' exists",
                               <<StartError(answer).message,
                                 IF answer = "InvalidRequestException: output bucket"
                                 THEN <<"b", "1">> ELSE <<"u","n","k","n","o","w","n">>>>)
                    ELSE Error("Failed to start Athena query: %s", <<StartFailureText(answer)>>)

\* StartQueryExecution was rejected for the output bucket b1 and the task
\* failed with the message that names b1
C27Witness ==
    \E i \in DOMAIN tasks :
        /\ StartRejected(i)
        /\ tasks[i].error.fmt = "S3 output bucket error: %s. Please ensure the bucket '%s' exists"
        /\ tasks[i].error.args[2] = <<"b", "1">>
        /\ tasks[i].calls.sleep = 0 /\ tasks[i].calls.status = 0 /\ tasks[i].calls.results = 0

\* what checkQueryStatusAndGetResults returns for an execution in the state
\* the status check found
ResultOfRemote(id, e) ==
    IF e.state = "SUCCEEDED"
    THEN QueryResult(MaterializeRows(e.rows), TRUE, id, CompleteStats)
    ELSE QueryResult(<<>>, FALSE, id, IncompleteStats(e.state))

\* the resumption in progress has answered its caller after a status check
Resumed == message.pc = "done" /\ message.calls.status = 1

\* C28: a resumption sends its status check through a client that exists and
\* is the client of its own options, and what it passes to cb is what a
\* process that has just been loaded passes for the same options and the same
\* remote answers: the formatting of the remote execution under attribute
\* caches compiled from these options alone, or the error of the remote
\* answer; no earlier doLookup or onMessage call has a part in it.
C28ResumeFromIdAlone ==
    /\ message.pc \in {"status", "results"}
          => /\ athenaClient # NullObj
             /\ athenaClient = initializeAthenaClient(message.options)
             /\ message.region = message.options.region
    /\ (Resumed /\ ~message.cb.isError)
          => /\ message.statusResult.State \in PendingStates \cup {"SUCCEEDED"}
             /\ message.queryResult
                  = ResultOfRemote(message.queryExecutionId, ExecutionOfMessage)
             /\ message.cb.data
                  = formatQueryResult(ResultOfRemote(message.queryExecutionId,
                                                     ExecutionOfMessage),
                                      message.options,
                                      setCachedDisplayAttributes(message.options,
                                                                 NoAttributeCache)).value
    /\ (Resumed /\ message.cb.isError)
          => \/ message.statusResult = NoStatusResult
             \/ message.statusResult.State = "FAILED"
             \/ message.statusResult.State = "SUCCEEDED" /\ message.calls.results = 1

\* a resumption under "a" in eu-west-1 has returned the row of its execution
\* after two doLookup calls under other options in us-east-1
C28Witness ==
    /\ Resumed
    /\ ~message.cb.isError
    /\ history.lookups = 2
    /\ lookup.options.region = "us-east-1"
    /\ lookup.options.summaryAttributes = UndefinedStr
    /\ message.options.region = "eu-west-1"
    /\ message.options.summaryAttributes = <<"a">>
    /\ message.cb.data.summary = <<<<"a", ":", " ", "x">>>>

\* a resumption has returned the row of its execution in a process in which
\* doLookup never ran
C28WitnessFresh ==
    /\ Resumed
    /\ ~message.cb.isError
    /\ history.lookups = 0
    /\ history.resumes = 1
    /\ message.cb.data.summary = <<<<"a", ":", " ", "x">>>>

\* ensurePreparedStatement execution c is in its check-then-write sequence:
\* it awaits the answer to its existence check or to its write
InCheckThenWrite(c) == ensureCalls[c].pc \in {"get", "write"}

\* C29: concurrent callers of ensurePreparedStatement are serialized: at any
\* time at most one execution is in its check-then-write sequence, so no two
\* CreatePreparedStatement/UpdatePreparedStatement calls for the statement
\* name are in flight together or issued from overlapping executions.
C29SingleWriter ==
    \A c, d \in DOMAIN ensureCalls :
        (InCheckThenWrite(c) /\ InCheckThenWrite(d)) => c = d

\* C29 restricted to the build whose doLookup calls ensurePreparedStatement
\* itself, once, before the tasks
C29SingleWriterOfPart001 == impl = "part_001" => C29SingleWriter

\* two writes of the statement are in flight at the same time
C29TwoWritesInFlight ==
    \E c, d \in DOMAIN ensureCalls :
        c # d /\ ensureCalls[c].pc = "write" /\ ensureCalls[d].pc = "write"

\* a step that leaves the remote client, the prepared-statement cache with
\* options._typeHints and the attribute caches as they were
SharedStateKept ==
    /\ UNCHANGED <<athenaClient, currentPreparedStatement, currentQuery, attributeCache>>
    /\ lookup'.typeHints = lookup.typeHints
    /\ lookup'.hintsSet = lookup.hintsSet

\* C30: within one doLookup invocation the remote client, the
\* prepared-statement cache (currentPreparedStatement, currentQuery,
\* options._typeHints) and the attribute caches are written only before the
\* tasks are dispatched: no step taken while the tasks of the invocation are
\* in flight changes any of them.
C30WrittenBeforeFanOut == [][lookup.pc = "tasks" => SharedStateKept]_vars

\* C30 restricted to the build whose doLookup calls ensurePreparedStatement
\* itself before the tasks
C30WrittenBeforeFanOutOfPart001 ==
    [][(impl = "part_001" /\ lookup.pc = "tasks") => SharedStateKept]_vars

\* the createQuery of an entity task has set the prepared-statement cache
\* while another task of the same invocation is still to settle
C30WrittenMidFlight ==
    /\ lookup.pc = "tasks"
    /\ currentPreparedStatement = statementName
    /\ \E c, d \in DOMAIN tasks :
          /\ c # d
          /\ c \in DOMAIN ensureCalls
          /\ ensureCalls[c].pc = "returned"
          /\ ~Settled(tasks[d])

\* the write of ensurePreparedStatement execution c is answered with a failure
WriteFails(c) ==
    /\ ensureCalls[c].pc = "write"
    /\ c \in DOMAIN ensureCalls'
    /\ ensureCalls'[c].pc = "threw"

\* doLookup of part_001 begins after a failed write, with a template whose
\* canonical text is the one that write carried
RetriesFailedTemplate ==
    /\ impl = "part_001"
    /\ ensureCalls[0].pc = "threw"
    /\ history'.lookups = history.lookups + 1
    /\ parseTypeHints(lookup'.options.query).query = ensureCalls[0].processedQuery

\* C31: a failed CreatePreparedStatement or UpdatePreparedStatement leaves
\* currentPreparedStatement and currentQuery as they were before the call, and
\* the next ensurePreparedStatement with the same template sends the existence
\* check again instead of returning the cached name.
C31FailedWriteKeepsCache ==
    [][/\ \A c \in DOMAIN ensureCalls :
             WriteFails(c) => UNCHANGED <<currentPreparedStatement, currentQuery>>
       /\ RetriesFailedTemplate
             => /\ ensureCalls'[0].pc = "get"
                /\ ensureCalls'[0].gets = 1
                /\ lookup'.pc = "ensure"]_vars

\* the second doLookup of part_001 has sent the existence check again and its
\* write, after the only write of the first one failed and left the cache and
\* the remote store empty
C31Witness ==
    /\ impl = "part_001"
    /\ history.lookups = 2
    /\ history.writes = 2
    /\ Cardinality(history.templates) = 1
    /\ ensureCalls[0].pc = "write"
    /\ currentPreparedStatement = NULL
    /\ currentQuery = NullStr
    /\ \A r \in Regions : remoteStatements[r] = NoStatement

\* a doLookup begins and the ensurePreparedStatement it calls finds the
\* canonical text of its template and a statement name in the cache
CacheHit ==
    /\ history'.lookups = history.lookups + 1
    /\ impl = "part_001" => includes(lookup'.options.query, "?")
    /\ currentPreparedStatement' # NULL
    /\ currentQuery' = parseTypeHints(lookup'.options.query).query

\* C32: when the cached canonical template is that of the requested template
\* and a statement name is cached, ensurePreparedStatement returns the cached
\* name without a get, create or update call and leaves the cache as it was.
C32CacheHitIsLocal ==
    [][CacheHit
         => /\ \A c \in DOMAIN ensureCalls' :
                  /\ ensureCalls'[c].pc = "returned"
                  /\ ensureCalls'[c].gets = 0
                  /\ ensureCalls'[c].creates = 0
                  /\ ensureCalls'[c].updates = 0
            /\ history'.writes = history.writes
            /\ UNCHANGED <<currentPreparedStatement, currentQuery, remoteStatements>>
            /\ impl = "part_001"
                  => lookup'.preparedStatementName = currentPreparedStatement]_vars

\* the second doLookup of part_001 has dispatched its tasks with the cached
\* name after the only write, that of the first one
C32Witness ==
    /\ impl = "part_001"
    /\ history.lookups = 2
    /\ history.writes = 1
    /\ lookup.pc = "tasks"
    /\ ensureCalls[0].pc = "returned"
    /\ ensureCalls[0].gets = 0
    /\ lookup.preparedStatementName = statementName
    /\ currentQuery = parseTypeHints(lookup.options.query).query

\* C33: after every setCachedDisplayAttributes(options) each of the three
\* cached lists is the compilation of the current option string, or null when
\* the option is absent or blank, and processAttributeOption is called for an
\* option only when its string differs from the one of the previous call: a
\* call with the strings of the previous call parses nothing.
C33CacheFollowsOptions ==
    [][/\ attributeCache'.cachedDocumentTitleAttributes
            = CompileOption(attributeCache'.lastDocumentTitleAttributeOption)
       /\ attributeCache'.cachedDetailAttributes
            = CompileOption(attributeCache'.lastDetailAttributesOption)
       /\ attributeCache'.cachedSummaryAttributes
            = CompileOption(attributeCache'.lastSummaryAttributesOption)
       /\ "documentTitleAttribute" \in history'.parsed
            => attributeCache'.lastDocumentTitleAttributeOption
                 # attributeCache.lastDocumentTitleAttributeOption
       /\ "detailAttributes" \in history'.parsed
            => attributeCache'.lastDetailAttributesOption
                 # attributeCache.lastDetailAttributesOption
       /\ "summaryAttributes" \in history'.parsed
            => attributeCache'.lastSummaryAttributesOption
                 # attributeCache.lastSummaryAttributesOption]_vars

\* a call has compiled a new summary string and kept the detail list of the
\* call before it, whose string is the same, without parsing it
C33Witness ==
    /\ history.parsed = {"summaryAttributes"}
    /\ attributeCache.lastDetailAttributesOption = <<"a", ",", "b">>
    /\ Len(attributeCache.cachedDetailAttributes) = 2
    /\ attributeCache.lastSummaryAttributesOption = <<"l", ":", "a">>
    /\ attributeCache.cachedSummaryAttributes = processAttributeOption(<<"l", ":", "a">>)
    /\ attributeCache.cachedDocumentTitleAttributes = NullList

\* the template of the lookup, once ensurePreparedStatement has parsed it
Canonical == parseTypeHints(lookup.options.query)

\* C34: canonicalization is idempotent: parseTypeHints applied to the
\* canonical template of a template returns that text unchanged, and every
\* hint it returns has the type 'string'.
C34Idempotent ==
    (lookup.options # NullObj /\ lookup.hintsSet)
        => /\ parseTypeHints(Canonical.query).query = Canonical.query
           /\ \A k \in DOMAIN parseTypeHints(Canonical.query).typeHints :
                 parseTypeHints(Canonical.query).typeHints[k].type = StringType

\* C34 for the templates in which no colon follows a type tag
C34IdempotentWithoutColonAfterTag ==
    (lookup.options # NullObj /\ lookup.hintsSet
       /\ lookup.options.query # <<"a", "?", ":", "i", "n", "t", ":", "b">>)
        => /\ parseTypeHints(Canonical.query).query = Canonical.query
           /\ \A k \in DOMAIN parseTypeHints(Canonical.query).typeHints :
                 parseTypeHints(Canonical.query).typeHints[k].type = StringType

\* the doLookup invocation has run to its end: it has returned, or the
\* promise it returned has been rejected
Ended == lookup.pc \in {"done", "threw"}

\* cb has been called once, with an error or with a result list
CalledBackOnce ==
    /\ lookup.cb.calls = 1
    /\ lookup.cb.isError <=> lookup.cb.err # NullObj
    /\ lookup.cb.isError => lookup.cb.results = <<>>

\* C35: every doLookup invocation calls cb exactly once, with an error or
\* with a result list, whatever the remote calls answer: it never calls cb
\* twice, and it does not end without having called it, also when the create
\* or update call inside ensurePreparedStatement fails before the tasks are
\* dispatched.
C35CallbackOnce ==
    /\ lookup.cb.calls <= 1
    /\ Ended => CalledBackOnce

\* C35 for the invocations whose ensurePreparedStatement call, made before the
\* tasks, has not failed
C35CallbackOnceUnlessEnsureFailed ==
    /\ lookup.cb.calls <= 1
    /\ lookup.pc = "done" => CalledBackOnce

\* entity task i has sent StartQueryExecution with an EXECUTE of the prepared
\* statement and awaits the answer
Executing(i) == tasks[i].pc = "start" /\ Submitted(i).kind = "EXECUTE"

\* the text the statement name is bound to where task i has sent its query
BoundRemotely(i) == remoteStatements[tasks[i].client.region]

\* C36: when an entity task submits EXECUTE <name> USING ..., the text bound
\* remotely to <name> is the canonical template of the options.query of the
\* task's invocation, and the number of USING literals is the number of
\* placeholders of that template.
C36ExecuteMeetsItsTemplate ==
    \A i \in DOMAIN tasks :
        Executing(i)
        => /\ BoundRemotely(i) = Canonical.query
           /\ Len(Submitted(i).using) = Placeholders(Canonical.query)

\* C36 for the invocations of part_001 that no resumption under another
\* connection has preceded: here, those of a run without resumptions
C36ExecuteMeetsItsTemplateUnresumed ==
    (impl = "part_001" /\ history.resumes = 0) => C36ExecuteMeetsItsTemplate

\* the attribute lists compiled from the options of the invocation in hand
OwnAttributes == setCachedDisplayAttributes(lookup.options, NoAttributeCache)

\* C37: what an entity task of a doLookup invocation returns is formatted
\* with the attribute lists compiled from the options of that invocation,
\* whatever doLookup or onMessage call with other attribute options runs
\* while the queries of the invocation are polled.
C37FormattedWithOwnSpecs ==
    \A i \in DOMAIN tasks :
        (impl = "part_001" /\ tasks[i].pc = "resolved")
        => tasks[i].value
             = TaskValue(tasks[i].entity, tasks[i].queryResult, lookup.options,
                         OwnAttributes).value

\* C37 for the invocations during which no onMessage call was made: here,
\* those of a run without resumptions
C37FormattedWithOwnSpecsUnresumed ==
    history.resumes = 0 => C37FormattedWithOwnSpecs

\* the existence check of ensurePreparedStatement execution c is answered
\* with a failure: the statement is missing, or the call failed otherwise
CheckFails(c) ==
    /\ ensureCalls[c].pc = "get"
    /\ c \in DOMAIN ensureCalls'
    /\ ensureCalls'[c].pc # "get"
    /\ ensureCalls'[c].answer \in {"notFound", "failed"}

\* C38: any failure of GetPreparedStatement, whatever its cause, is taken for
\* 'the statement does not exist': it fails neither the lookup nor the task
\* that waits for it, and CreatePreparedStatement follows it, never an update.
C38FailedCheckMeansCreate ==
    [][\A c \in DOMAIN ensureCalls :
          CheckFails(c)
          => /\ ensureCalls'[c].pc = "write"
             /\ ~ensureCalls'[c].statementExists
             /\ ensureCalls'[c].creates = 1
             /\ ensureCalls'[c].updates = 0
             /\ lookup' = lookup
             /\ tasks' = tasks]_vars

\* the existence check failed although the statement exists, and
\* CreatePreparedStatement is in flight
C38Witness ==
    \E c \in DOMAIN ensureCalls :
        /\ ensureCalls[c].pc = "write"
        /\ ensureCalls[c].answer = "failed"
        /\ ensureCalls[c].existedRemotely
        /\ ensureCalls[c].creates = 1
        /\ ensureCalls[c].updates = 0

\* C39: in the paging component, after any sequence of prevPage, nextPage,
\* firstPage and lastPage over any filtered list, an empty one included,
\* currentPage is at least 1 and at most max(1, ceil(filteredCount /
\* pageSize)), and the page slice starts at no negative index.
C39PageInRange ==
    /\ component.currentPage >= 1
    /\ component.currentPage <= Max({1, totalPages(component)})
    /\ startIndex(component) >= 0

\* C39 for the filtered lists that are not empty
C39PageInRangeUnlessEmpty ==
    filteredPagingData(component) # <<>> => C39PageInRange

====
